---- MODULE Spec2Model ----
(***************************************************************************)
(* A model of app/services/video.py: capability probing and its cache,     *)
(* the encoder fallback wrapper, the clip worker and combine_videos.       *)
(*                                                                         *)
(* Text is modelled as a tuple of one-character strings, so that           *)
(* lower-casing and substring search are computed, not assumed.            *)
(* Durations are whole seconds.                                            *)
(***************************************************************************)
EXTENDS Integers, Sequences, FiniteSets, TLC

VARIABLES
    phase,          \* the operation being exercised and how far it has run
    video_codec,    \* module global video_codec (line 56, reassigned at line 351)
    \* write_videofile_with_fallback
    wv_codec,       \* the codec argument
    wv_first,       \* what the first clip.write_videofile call did
    wv_retry,       \* what the second clip.write_videofile call did, if one was made
    wv_result,      \* the encoders tried, in order, and how the call ended
    wv_demotions,   \* calls so far that went from the GPU encoder to libx264
    \* the capability cache
    host,                \* the machine: its GPUs, its operating system, its ffmpeg build
    cached_gpu_type,     \* module global _cached_gpu_type (line 276)
    cached_scale_filter, \* module global _cached_scale_filter (line 277)
    th_pc,          \* per thread: its position inside get_gpu_scale_filter_cached
    th_local,       \* per thread: the value a probe returned, before it is stored
    th_ret,         \* per thread: what its last finished lookup returned
    lookups,        \* number of lookups started after module initialisation
    first_verdict,  \* what the lookup of module initialisation (line 355) returned
    later_probes,   \* probe runs made by lookups after module initialisation
    saw_partial     \* threads that read the vendor as set and the filter as unset
                    \* while another thread was between the two stores

    ,
    \* process_single_clip, called on its own
    pw_args,        \* the arguments of the call
    pw_result,      \* what the call handed back
    \* combine_videos
    cv_args,              \* the arguments of the call, and what the sources hold
    subclipped_items,     \* the planned windows (line 638)
    src_idx,              \* the planning loop: the source being sliced (line 640)
    start_time,           \* the planning loop: start of the next window (line 646)
    video_width,          \* target width (lines 635, 663, 668)
    video_height,         \* target height
    gpu_scale_filter,     \* line 674
    max_workers,          \* line 678
    pending,              \* indexes submitted to the pool and not yet collected
    processed_clips_dict, \* line 689: the entries <<index, clip>> in insertion order
    failed,               \* indexes whose worker handed back no clip (lines 717, 719)
    video_duration,       \* line 639, added to at lines 714 and 732
    processed_clips,      \* line 722, appended to at line 731
    base_clips,           \* line 727
    merge_i,              \* the re-encode loop: position of the next clip (line 821)
    files,                \* the files of output_dir, and the output file
    fast_failure,         \* how the fast concat failed, "" if it has not
    cv_error              \* the exception that left combine_videos, "" if none
    ,
    \* generate_video
    gv_args,              \* the arguments of the call, and what the machine holds
    use_ffmpeg_subtitle,  \* line 1300
    ass_path,             \* line 1301: None, or the path of subtitle.ass
    ass_failure,          \* why srt_to_ass handed back False, "" if it did not
    gv_files,             \* output_dir: subtitle.ass, temp_no_subtitle.mp4, the output
    burn_invoked,         \* whether the ffmpeg burn command was run (line 1467)
    burn_outcome,         \* "" before the burn path, "ok", or how the burn path failed
    text_overlay_runs,    \* times a MoviePy text overlay was composed
    composite_encode,     \* what the last encode of a composed video did, "" if none
    gv_error,             \* the exception that left generate_video, "" if none
    audio_clip,           \* what the local audio_clip holds (lines 1319, 1353, 1507)
    output_audio          \* the audio track of the output file, "" while there is none
    ,
    \* a subtitle text function, called on its own
    tx_fn,                \* the function called
    tx_in,                \* its argument
    tx_out                \* what it handed back, <<>> before the call
    ,
    \* the capability probes, called on their own
    pr_env,               \* what the commands of detect_gpu do
    pr_encoders,          \* what ffmpeg -encoders does
    pr_filters,           \* what ffmpeg -filters does
    pr_gpu,               \* what detect_gpu handed back
    pr_codec,             \* what get_best_video_codec handed back
    pr_filter             \* what get_gpu_scale_filter handed back

encVars == <<wv_codec, wv_first, wv_retry, wv_result, wv_demotions>>
cacheVars == <<host, cached_gpu_type, cached_scale_filter, th_pc, th_local, th_ret,
               lookups, first_verdict, later_probes, saw_partial>>

workerVars == <<pw_args, pw_result>>
combineVars == <<cv_args, subclipped_items, src_idx, start_time, video_width,
                 video_height, gpu_scale_filter, max_workers, pending,
                 processed_clips_dict, failed, video_duration, processed_clips,
                 base_clips, merge_i, files, fast_failure, cv_error>>

genVars == <<gv_args, use_ffmpeg_subtitle, ass_path, ass_failure, gv_files, burn_invoked,
             burn_outcome, text_overlay_runs, composite_encode, gv_error, audio_clip,
             output_audio>>

\* the variables of the specifications that follow SpecCombine
textVars == <<tx_fn, tx_in, tx_out>>
probeVars == <<pr_env, pr_encoders, pr_filters, pr_gpu, pr_codec, pr_filter>>
otherVars == <<genVars, textVars, probeVars>>

vars == <<phase, video_codec, encVars, cacheVars, workerVars, combineVars, otherVars>>

None == "None"

(***************************************************************************)
(* Text helpers                                                            *)
(***************************************************************************)

\* str.lower() on one character (ASCII letters)
LowerChar(c) ==
    CASE c = "A" -> "a" [] c = "B" -> "b" [] c = "C" -> "c" [] c = "D" -> "d"
      [] c = "E" -> "e" [] c = "F" -> "f" [] c = "G" -> "g" [] c = "H" -> "h"
      [] c = "I" -> "i" [] c = "J" -> "j" [] c = "K" -> "k" [] c = "L" -> "l"
      [] c = "M" -> "m" [] c = "N" -> "n" [] c = "O" -> "o" [] c = "P" -> "p"
      [] c = "Q" -> "q" [] c = "R" -> "r" [] c = "S" -> "s" [] c = "T" -> "t"
      [] c = "U" -> "u" [] c = "V" -> "v" [] c = "W" -> "w" [] c = "X" -> "x"
      [] c = "Y" -> "y" [] c = "Z" -> "z" [] OTHER -> c

\* str.lower()
Lower(s) == [i \in 1..Len(s) |-> LowerChar(s[i])]

\* the Python expression  kw in s
Contains(s, kw) ==
    \E i \in 0..(Len(s) - Len(kw)) :
        \A j \in 1..Len(kw) : s[i + j] = kw[j]

(***************************************************************************)
(* Encoders                                                                *)
(***************************************************************************)

\* GPU_ENCODERS.values()
GPU_ENCODERS ==
    [nvidia |-> "h264_nvenc", intel |-> "h264_qsv",
     amd |-> "h264_amf", apple |-> "h264_videotoolbox"]

GpuEncoderValues == {GPU_ENCODERS[v] : v \in DOMAIN GPU_ENCODERS}

\* the keyword list of line 336
FallbackKeywords ==
    { <<"n","v","e","n","c">>,
      <<"d","r","i","v","e","r">>,
      <<"e","n","c","o","d","e","r">>,
      <<"n","o","t"," ","s","u","p","p","o","r","t">>,
      <<"i","n","v","a","l","i","d"," ","a","r","g","u","m","e","n","t">> }

\* A faulty variant of IsGpuEncoderError: the message is searched without lower-casing it.
IsGpuEncoderErrorCaseSensitive(msg) ==
    \E kw \in FallbackKeywords : Contains(msg, kw)

\* lines 334-336: error_msg = str(e).lower(); any(keyword in error_msg ...)
IsGpuEncoderError(msg) ==
    \E kw \in FallbackKeywords : Contains(Lower(msg), kw)

\* what one clip.write_videofile call did: it returned, or it raised an exception
\* with a message; NotMade stands for a call that was not made
Ok == [kind |-> "ok", msg |-> <<>>]
Raised(m) == [kind |-> "raised", msg |-> m]
NotMade == [kind |-> "not made", msg |-> <<>>]

\* write_videofile_with_fallback(clip, filename, codec, fallback_codec).
\* first and retry are what the first and the second clip.write_videofile call do.
\* The result lists the encoders tried, in order, and the outcome of the call:
\* Ok (it returned) or the exception it raised.
write_videofile_with_fallback(codec_arg, fallback_codec, global_codec, first, retry) ==
    LET codec == IF codec_arg = None THEN global_codec ELSE codec_arg IN
    IF codec # fallback_codec /\ codec \in GpuEncoderValues
    THEN IF first = Ok
         THEN [attempts |-> <<codec>>, outcome |-> Ok]
         ELSE IF IsGpuEncoderError(first.msg)
              THEN [attempts |-> <<codec, fallback_codec>>, outcome |-> retry]
              ELSE [attempts |-> <<codec>>, outcome |-> first]
    ELSE [attempts |-> <<codec>>, outcome |-> first]

(***************************************************************************)
(* Error messages an encoder can raise                                     *)
(***************************************************************************)

MsgNvencUpper == <<"N","V","E","N","C">>
MsgNoNvenc == <<"n","o"," ","n","v","e","n","c">>
MsgDriver == <<"D","r","i","v","e","r">>
MsgEncoder == <<"e","n","c","o","d","e","r">>
MsgNotSupport == <<"N","o","t"," ","s","u","p","p","o","r","t","e","d">>
MsgInvalidArgument == <<"I","n","v","a","l","i","d"," ","a","r","g","u","m","e","n","t">>
MsgDiskFull == <<"d","i","s","k"," ","f","u","l","l">>
MsgBrokenPipe == <<"B","r","o","k","e","n"," ","p","i","p","e">>
MsgNven == <<"n","v","e","n">>
MsgNotSupportNoSpace == <<"n","o","t","s","u","p","p","o","r","t">>
MsgEmpty == <<>>

\* messages that hold one of the five keywords, whatever the case of their letters
KeywordMessages ==
    {MsgNvencUpper, MsgNoNvenc, MsgDriver, MsgEncoder, MsgNotSupport, MsgInvalidArgument}

OtherMessages == {MsgDiskFull, MsgBrokenPipe, MsgNven, MsgNotSupportNoSpace, MsgEmpty}

Messages == KeywordMessages \cup OtherMessages

WriteOutcomes == {Ok} \cup {Raised(m) : m \in Messages}

\* the encoders get_best_video_codec can choose
ChosenEncoders == GpuEncoderValues \cup {"libx264"}

\* codec arguments: the chosen encoders, an encoder that is neither, and None
CodecArgs == ChosenEncoders \cup {"mpeg4", None}

(***************************************************************************)
(* Capability probes.  A probe reads the machine through a command whose   *)
(* result is summarised by what the code tests in it.                      *)
(***************************************************************************)

Digits == {"0","1","2","3","4","5","6","7","8","9"}

DigitValue(c) ==
    CASE c = "0" -> 0 [] c = "1" -> 1 [] c = "2" -> 2 [] c = "3" -> 3 [] c = "4" -> 4
      [] c = "5" -> 5 [] c = "6" -> 6 [] c = "7" -> 7 [] c = "8" -> 8 [] c = "9" -> 9

\* s.split('.')[0]
BeforeDot(s) ==
    IF \E i \in 1..Len(s) : s[i] = "."
    THEN SubSeq(s, 1, (CHOOSE i \in 1..Len(s) :
                          s[i] = "." /\ \A j \in 1..(i - 1) : s[j] # ".") - 1)
    ELSE s

RECURSIVE DecimalValue(_)
DecimalValue(s) ==
    IF Len(s) = 0 THEN 0
    ELSE 10 * DecimalValue(SubSeq(s, 1, Len(s) - 1)) + DigitValue(s[Len(s)])

\* int(s) for a string of decimal digits; -1 stands for ValueError
ParseInt(s) ==
    IF Len(s) > 0 /\ \A i \in 1..Len(s) : s[i] \in Digits THEN DecimalValue(s) ELSE -1

NvencMinDriver == 570

\* A faulty variant of check_nvidia_driver_version: the bound is exclusive.
check_nvidia_driver_version_exclusive(drv) ==
    /\ drv.run = "ok"
    /\ Len(drv.version) > 0
    /\ ParseInt(BeforeDot(drv.version)) > NvencMinDriver

\* check_nvidia_driver_version().  drv.run is what nvidia-smi did ("ok": exit code 0;
\* "fail": another exit code; "raise": an exception); drv.version is the first line
\* of its output, stripped.
check_nvidia_driver_version(drv) ==
    /\ drv.run = "ok"
    /\ Len(drv.version) > 0
    /\ ParseInt(BeforeDot(drv.version)) >= NvencMinDriver

\* detect_gpu().  env holds what each command did:
\*   smi      "ok" (exit code 0, a non-empty first line), "no output", "not found",
\*            "timeout", or "error" (another exception)
\*   driver   see check_nvidia_driver_version
\*   system   platform.system().lower()
\*   wmic     run: "ok", "fail", "not found", "timeout" or "error"; words: the words
\*            among intel, uhd, iris, xe, amd, radeon found in the lower-cased output
\*   profiler "apple", "other" (exit code 0 without Apple), "fail", "not found",
\*            "timeout" or "error"
\*   drm      the vendor file: "absent", its content, or "error"
detect_gpu(env) ==
    IF env.smi = "error" THEN None
    ELSE IF env.smi = "ok"
    THEN IF check_nvidia_driver_version(env.driver) THEN "nvidia" ELSE None
    ELSE IF env.system = "windows"
    THEN IF env.wmic.run = "error" THEN None
         ELSE IF env.wmic.run = "ok" /\ "intel" \in env.wmic.words
                 /\ env.wmic.words \cap {"uhd", "iris", "xe"} # {}
         THEN "intel"
         ELSE IF env.wmic.run = "ok" /\ env.wmic.words \cap {"amd", "radeon"} # {}
         THEN "amd"
         ELSE None
    ELSE IF env.system = "darwin"
    THEN IF env.profiler = "apple" THEN "apple" ELSE None
    ELSE IF env.system = "linux"
    THEN IF env.drm = "0x8086" THEN "intel"
         ELSE IF env.drm = "0x1002" THEN "amd"
         ELSE None
    ELSE None

\* A faulty variant of check_ffmpeg_support: the exit code of ffmpeg is not tested.
check_ffmpeg_support_any_exit(name, listing) == name \in listing.names

\* check_ffmpeg_encoder_support(name) and check_ffmpeg_filter_support(name).
\* listing.run is what ffmpeg did ("ok", "fail": a non-zero exit code, "raise": an
\* exception such as a timeout); listing.names are the names found in its output.
check_ffmpeg_support(name, listing) ==
    listing.run = "ok" /\ name \in listing.names

\* the dictionary gpu_filters of lines 257-262
gpu_filters ==
    [nvidia |-> "scale_npp", intel |-> "scale_qsv", amd |-> "scale", apple |-> "scale"]

\* A faulty variant of RunsFilterProbe: the entry "scale" of amd and apple is taken
\* for a GPU filter.
RunsFilterProbeAlways(gpu_type) == gpu_type \in DOMAIN gpu_filters

\* whether get_gpu_scale_filter(gpu_type) runs ffmpeg -filters
RunsFilterProbe(gpu_type) ==
    /\ gpu_type \in DOMAIN gpu_filters
    /\ gpu_filters[gpu_type] # "scale"

\* get_gpu_scale_filter(gpu_type)
get_gpu_scale_filter(gpu_type, listing) ==
    IF gpu_type = None THEN None
    ELSE IF RunsFilterProbe(gpu_type) /\ check_ffmpeg_support(gpu_filters[gpu_type], listing)
    THEN gpu_filters[gpu_type]
    ELSE None

\* get_best_video_codec()[0]
get_best_video_codec(env, listing) ==
    LET gpu_type == detect_gpu(env) IN
    IF gpu_type # None /\ gpu_type \in DOMAIN GPU_ENCODERS
       /\ check_ffmpeg_support(GPU_ENCODERS[gpu_type], listing)
    THEN GPU_ENCODERS[gpu_type]
    ELSE "libx264"

NumThreads == 2
Threads == 1..NumThreads

\* lookups started after module initialisation
MaxLookups == 3

(***************************************************************************)
(* Machines                                                                *)
(***************************************************************************)

V570_61 == <<"5","7","0",".","6","1">>
V570_0 == <<"5","7","0",".","0">>
V569_99 == <<"5","6","9",".","9","9">>
VUnparsable == <<"N","/","A">>

Machine(system, smi, version, words, profiler, drm, encoders, filters) ==
    [system |-> system, smi |-> smi, version |-> version, words |-> words,
     profiler |-> profiler, drm |-> drm, encoders |-> encoders, filters |-> filters]

Hosts ==
    { Machine("linux", "absent", <<>>, {}, "other", "absent", {}, {}),
      Machine("linux", "present", V570_61, {}, "other", "absent",
              {"h264_nvenc"}, {"scale_npp"}),
      Machine("linux", "present", V570_0, {}, "other", "absent", {"h264_nvenc"}, {}),
      Machine("linux", "present", V569_99, {}, "other", "0x8086",
              {"h264_qsv"}, {"scale_qsv"}),
      Machine("linux", "absent", <<>>, {}, "other", "0x1002", {"h264_amf"}, {}),
      Machine("windows", "absent", <<>>, {"intel", "uhd"}, "other", "absent",
              {"h264_qsv"}, {"scale_qsv"}),
      Machine("darwin", "absent", <<>>, {}, "apple", "absent",
              {"h264_videotoolbox"}, {}) }

\* what one run of detect_gpu can meet on machine h: the machine answers, or
\* nvidia-smi exceeds its 2 s timeout
DetectEnvs(h) ==
    { [system |-> h.system, smi |-> smi,
       driver |-> [run |-> "ok", version |-> h.version],
       wmic |-> [run |-> "ok", words |-> h.words],
       profiler |-> h.profiler, drm |-> h.drm] :
      smi \in IF h.smi = "present" THEN {"ok", "timeout"} ELSE {"not found"} }

\* what one ffmpeg listing can do: list the names, or exceed its 5 s timeout
Listings(names) == { [run |-> "ok", names |-> names], [run |-> "raise", names |-> {}] }

(***************************************************************************)
(* The clip worker                                                         *)
(***************************************************************************)

\* a file of output_dir: a name and the number in it (0 when the name has none)
File(name, n) == <<name, n>>

\* SubClippedVideoClip.__init__ (lines 40-49): duration defaults to end - start
SubClippedVideoClip(file_path, t_start, t_end, width, height) ==
    [file_path |-> file_path, start_time |-> t_start, end_time |-> t_end,
     width |-> width, height |-> height, duration |-> t_end - t_start]

\* what process_single_clip hands back: a clip record (lines 603-608), None
\* (line 612), or an exception leaving the function.  enc_w and enc_h are the size
\* of the clip object given to the encoder; left are the files of output_dir the
\* call leaves behind.
ClipResult(n, duration, width, height, enc_w, enc_h, left) ==
    [kind |-> "clip", n |-> n, duration |-> duration, width |-> width,
     height |-> height, enc_w |-> enc_w, enc_h |-> enc_h, left |-> left]
NoneResult(n, left) ==
    [kind |-> "none", n |-> n, duration |-> 0, width |-> 0, height |-> 0,
     enc_w |-> 0, enc_h |-> 0, left |-> left]
RaisedResult(n, left) ==
    [kind |-> "raised", n |-> n, duration |-> 0, width |-> 0, height |-> 0,
     enc_w |-> 0, enc_h |-> 0, left |-> left]

\* A faulty variant of WorkerFailure: the try of line 484 is missing, the exception leaves
\* the worker.
WorkerFailureUncaught(n, left) == RaisedResult(n, left)

\* lines 610-612: except Exception: log, return None
WorkerFailure(n, left) == NoneResult(n, left)

\* the width and height of the returned record (lines 606-607): the variables
\* clip_w, clip_h, assigned at line 493 from the decoded clip and again at line 534
\* only when the GPU scale succeeded (the rescaled file has the target size)
RecordSize(clip_w, clip_h, target_width, target_height, gpu_resize_success) ==
    IF gpu_resize_success THEN <<target_width, target_height>> ELSE <<clip_w, clip_h>>

\* A faulty variant of WorkerPaths: the index is left out of the names.
WorkerPathsUnindexed(clip_index) ==
    [resized |-> File("temp-resized", 1), input |-> File("temp-input", 1),
     clip |-> File("temp-clip", 1)]

\* lines 507, 509, 590: the files of output_dir one call of process_single_clip
\* writes, named after clip_index + 1
WorkerPaths(clip_index) ==
    [resized |-> File("temp-resized", clip_index + 1),
     input |-> File("temp-input", clip_index + 1),
     clip |-> File("temp-clip", clip_index + 1)]

\* the transition modes of VideoTransitionMode
TransitionModes == {"none", "shuffle", "fade_in", "fade_out", "slide_in", "slide_out"}

\* process_single_clip.  env holds what each external step does:
\*   decode      "ok" or "raise"   (VideoFileClip(...).subclipped, line 488)
\*   gpu_write   "ok" or "raise"   (clip.write_videofile of temp-input, line 512)
\*   gpu_resize  "ok", "fail" or "fail_partial" (resize_clip_with_gpu, line 522;
\*               fail_partial: ffmpeg failed and left an output file)
\*   gpu_reopen  "ok" or "raise"   (VideoFileClip(temp_resized_path), line 533)
\*   cpu_resize  "ok" or "raise"   (clip.resized / CompositeVideoClip, lines 550-562)
\*   transition  "ok" or "raise"   (the video_effects function, lines 569-584)
\*   trim        "ok" or "raise"   (clip.subclipped(0, max_clip_duration), line 588)
\*   first, retry  the two clip.write_videofile calls of the encoder wrapper
\*   partial     whether a failed encode leaves temp-clip behind
process_single_clip(item, clip_index, target_width, target_height, max_clip_duration, video_transition_mode, scale_filter, codec, env) ==
    LET n == clip_index + 1
        clip_duration == item.end_time - item.start_time
        clip_w == item.width
        clip_h == item.height
        needs_resize == clip_w # target_width \/ clip_h # target_height
        \* clip.w / clip.h == target_width / target_height, on exact quotients
        same_ratio == clip_w * target_height = target_width * clip_h
        try_gpu == needs_resize /\ scale_filter # None /\ same_ratio
        gpu_ran == try_gpu /\ env.gpu_write = "ok"
        gpu_resize_success == gpu_ran /\ env.gpu_resize = "ok" /\ env.gpu_reopen = "ok"
        \* temp-resized exists once ffmpeg has written it, whole or in part
        resized_file == IF gpu_ran /\ env.gpu_resize \in {"ok", "fail_partial"}
                        THEN {WorkerPaths(clip_index).resized} ELSE {}
        cpu_fails == needs_resize /\ ~gpu_resize_success /\ env.cpu_resize = "raise"
        transition_fails ==
            \/ video_transition_mode = None
            \/ video_transition_mode # "none" /\ env.transition = "raise"
        \* no effect changes the duration of the clip
        trim_fails == clip_duration > max_clip_duration /\ env.trim = "raise"
        w == write_videofile_with_fallback(codec, "libx264", codec, env.first, env.retry)
        size == RecordSize(clip_w, clip_h, target_width, target_height, gpu_resize_success)
    IN  IF env.decode = "raise" THEN WorkerFailure(n, {})
        ELSE IF cpu_fails \/ transition_fails \/ trim_fails
        THEN WorkerFailure(n, resized_file)
        ELSE IF w.outcome # Ok
        THEN WorkerFailure(n, resized_file \cup
                              (IF env.partial THEN {WorkerPaths(clip_index).clip} ELSE {}))
        ELSE ClipResult(n,
                        IF clip_duration <= max_clip_duration
                        THEN clip_duration ELSE max_clip_duration,
                        size[1], size[2], target_width, target_height,
                        {WorkerPaths(clip_index).clip})

\* the largest max_clip_duration tried
MaxClipDuration == 2

\* frame sizes: portrait, landscape, square (VideoAspect.to_resolution), and a
\* smaller frame of the portrait shape
Portrait == <<1080, 1920>>
Landscape == <<1920, 1080>>
Square == <<1080, 1080>>
SmallPortrait == <<540, 960>>
SourceSizes == {Portrait, Landscape, Square, SmallPortrait}

AllOk ==
    [decode |-> "ok", gpu_write |-> "ok", gpu_resize |-> "ok", gpu_reopen |-> "ok",
     cpu_resize |-> "ok", transition |-> "ok", trim |-> "ok",
     first |-> Ok, retry |-> Ok, partial |-> FALSE]

\* every combination of what the external steps of one worker can do
WorkerEnvs ==
    [decode : {"ok", "raise"}, gpu_write : {"ok", "raise"},
     gpu_resize : {"ok", "fail", "fail_partial"}, gpu_reopen : {"ok", "raise"},
     cpu_resize : {"ok", "raise"}, transition : {"ok", "raise"}, trim : {"ok", "raise"},
     first : {Ok, Raised(MsgNvencUpper), Raised(MsgDiskFull)},
     retry : {Ok, Raised(MsgDiskFull)}, partial : BOOLEAN]

\* one failing step at a time, each step in turn
SingleFailureEnvs ==
    { AllOk,
      [AllOk EXCEPT !.decode = "raise"],
      [AllOk EXCEPT !.gpu_write = "raise"],
      [AllOk EXCEPT !.gpu_resize = "fail"],
      [AllOk EXCEPT !.gpu_resize = "fail_partial"],
      [AllOk EXCEPT !.gpu_reopen = "raise"],
      [AllOk EXCEPT !.cpu_resize = "raise"],
      [AllOk EXCEPT !.transition = "raise"],
      [AllOk EXCEPT !.trim = "raise"],
      [AllOk EXCEPT !.first = Raised(MsgNvencUpper)],
      [AllOk EXCEPT !.first = Raised(MsgNvencUpper), !.retry = Raised(MsgDiskFull)],
      [AllOk EXCEPT !.first = Raised(MsgDiskFull)],
      [AllOk EXCEPT !.first = Raised(MsgDiskFull), !.partial = TRUE] }

NoArgs ==
    [item |-> SubClippedVideoClip(0, 0, 0, 0, 0), clip_index |-> 0,
     video_width |-> 0, video_height |-> 0, max_clip_duration |-> 0,
     video_transition_mode |-> None, gpu_scale_filter |-> None]

WorkerIdle ==
    /\ pw_args = NoArgs
    /\ pw_result = NoneResult(0, {})

(***************************************************************************)
(* combine_videos: helpers                                                 *)
(***************************************************************************)

MaxSources == 2
\* the durations of the sources of one call add up to at most this
MaxTotalDuration == 3
\* the longest narration
MaxAudio == 3
\* where the model stops a loop of the code that would not end
MaxWindows == MaxTotalDuration + 1
MaxListLen == MaxTotalDuration + MaxAudio

Min(a, b) == IF a <= b THEN a ELSE b
Max(a, b) == IF a >= b THEN a ELSE b

\* VideoAspect.to_resolution(); <<0, 0>> stands for (None, None)
to_resolution(aspect) ==
    CASE aspect = "portrait" -> Portrait
      [] aspect = "landscape" -> Landscape
      [] aspect = "square" -> Square
      [] OTHER -> <<0, 0>>

\* the orders random.shuffle can leave a list in
Shuffles(seq) ==
    { [k \in 1..Len(seq) |-> seq[p[k]]] :
        p \in { q \in [1..Len(seq) -> 1..Len(seq)] :
                  \A a, b \in 1..Len(seq) : a # b => q[a] # q[b] } }

\* lines 682-686: the indexes of clips_to_process.  video_duration is not changed
\* by the loop, so its test either stops the loop at once or never does.
ClipsToProcess(items, duration_so_far, audio_duration) ==
    IF duration_so_far > audio_duration THEN {} ELSE 0..(Len(items) - 1)

RECURSIVE SortedSeq(_)
\* sorted(keys), for a set of integers
SortedSeq(keys) ==
    IF keys = {} THEN <<>>
    ELSE LET least == CHOOSE k \in keys : \A j \in keys : k <= j
         IN  <<least>> \o SortedSeq(keys \ {least})

\* processed_clips_dict[i]
DictGet(dict, i) == (CHOOSE e \in {dict[k] : k \in 1..Len(dict)} : e[1] = i)[2]

DictKeys(dict) == {dict[k][1] : k \in 1..Len(dict)}

\* A faulty variant of SortedClips: the clips are listed in the order they completed.
ClipsInCompletionOrder(dict) == [k \in 1..Len(dict) |-> dict[k][2]]

\* line 722: [processed_clips_dict[i] for i in sorted(processed_clips_dict.keys())]
SortedClips(dict) ==
    LET order == SortedSeq(DictKeys(dict))
    IN  [k \in 1..Len(order) |-> DictGet(dict, order[k])]

\* A faulty variant of FullWindow: the remainder of a source is a window too.
FullWindowAlways(clip_duration, t_start, m) == TRUE

\* line 650: if clip_duration - start_time >= max_clip_duration
FullWindow(clip_duration, t_start, m) == clip_duration - t_start >= m

\* A faulty variant of BreaksAfterFirstPass: the while loop of line 648 runs on in
\* every mode.
BreaksNever(mode) == FALSE

\* lines 653-654: if video_concat_mode.value == VideoConcatMode.sequential.value: break
BreaksAfterFirstPass(mode) == mode = "sequential"

\* A faulty variant of OriginalTarget: the default size whatever the windows.
OriginalTargetDefault(items) == <<1080, 1920>>

\* lines 661-669: the target of the original aspect
OriginalTarget(items) ==
    IF Len(items) > 0 THEN <<items[1].width, items[1].height>> ELSE <<1080, 1920>>

\* A faulty variant of CycleIndex: every pass takes the last clip of the list again.
CycleIndexLast(appended, n) == n - 1

\* line 728: the position in base_clips of the clip that itertools.cycle yields after
\* it has yielded appended clips of a list of n
CycleIndex(appended, n) == appended % n

\* A faulty variant of LoopDone: the loop stops one second short of the narration.
LoopDoneEarly(duration_so_far, audio_duration) == duration_so_far + 1 >= audio_duration

\* line 729: if video_duration >= audio_duration: break
LoopDone(duration_so_far, audio_duration) == duration_so_far >= audio_duration

\* delete_files(files): os.remove on each path, errors swallowed
delete_files(existing, paths) == existing \ paths

\* line 745 hands delete_files the clip objects, not their paths: os.remove raises
\* TypeError on each and line 451 swallows it, so no path is removed
ClipObjectsAsPaths(clips) == {}

\* [clip.file_path for clip in processed_clips]
ClipPaths(clips) == {File("temp-clip", clips[k].n) : k \in 1..Len(clips)}

ConcatList == File("concat_list", 0)
TempMergedVideo == File("temp-merged-video", 0)
TempMergedNext == File("temp-merged-next", 0)
OutputFile == File("combined", 0)

\* what the fast concat can do (lines 751-809): writing the list can raise; ffmpeg
\* can fail to start, time out, exit with a code; the output file can be there or not
FastOutcomes ==
    [list : {"ok", "raise"}, run : {"rc0", "rc_nonzero", "timeout", "spawn_raise"},
     output : BOOLEAN]

RECURSIVE SumDuration(_)
SumDuration(clips) ==
    IF Len(clips) = 0 THEN 0 ELSE clips[1].duration + SumDuration(Tail(clips))

\* the lists of sources a call can be given: each source has a duration and a size
\* the frame size of the k-th source: a small portrait frame, a landscape frame,
\* and so on in turn
SourceSize(k) == IF k % 2 = 1 THEN SmallPortrait ELSE Landscape

SourceLists ==
    { l \in UNION { [1..n -> [duration : 0..MaxTotalDuration]] : n \in 0..MaxSources } :
        SumDuration(l) <= MaxTotalDuration }

NoCombineArgs ==
    [video_paths |-> <<>>, audio_duration |-> 0, video_aspect |-> "portrait",
     video_concat_mode |-> "sequential", video_transition_mode |-> None,
     max_clip_duration |-> 0]

CombineIdle ==
    /\ cv_args = NoCombineArgs
    /\ subclipped_items = <<>>
    /\ src_idx = 0
    /\ start_time = 0
    /\ video_width = 0
    /\ video_height = 0
    /\ gpu_scale_filter = None
    /\ max_workers = 0
    /\ pending = {}
    /\ processed_clips_dict = <<>>
    /\ failed = {}
    /\ video_duration = 0
    /\ processed_clips = <<>>
    /\ base_clips = <<>>
    /\ merge_i = 0
    /\ files = {}
    /\ fast_failure = ""
    /\ cv_error = ""

\* generate_video not called
NoGvArgs == [subtitle_path |-> FALSE]

GenerateIdle ==
    /\ gv_args = NoGvArgs
    /\ use_ffmpeg_subtitle = FALSE
    /\ ass_path = None
    /\ ass_failure = ""
    /\ gv_files = {}
    /\ burn_invoked = FALSE
    /\ burn_outcome = ""
    /\ text_overlay_runs = 0
    /\ composite_encode = ""
    /\ gv_error = ""
    /\ audio_clip = ""
    /\ output_audio = ""

\* no text function called
TextIdle ==
    /\ tx_fn = ""
    /\ tx_in = <<>>
    /\ tx_out = <<>>

\* a machine without a GPU
NoProbeEnv ==
    [system |-> "linux", smi |-> "not found", driver |-> [run |-> "ok", version |-> <<>>],
     wmic |-> [run |-> "ok", words |-> {}], profiler |-> "other", drm |-> "absent"]

\* no probe called on its own
ProbeIdle ==
    /\ pr_env = NoProbeEnv
    /\ pr_encoders = [run |-> "raise", names |-> {}]
    /\ pr_filters = [run |-> "raise", names |-> {}]
    /\ pr_gpu = ""
    /\ pr_codec = ""
    /\ pr_filter = ""

OtherIdle == GenerateIdle /\ TextIdle /\ ProbeIdle

(***************************************************************************)
(* SpecEncode: one call of write_videofile_with_fallback                   *)
(***************************************************************************)

NoResult == [attempts |-> <<>>, outcome |-> NotMade]

\* the capability cache as the module text leaves it (lines 276-277), no thread running
CacheIdle ==
    /\ host = Machine("linux", "absent", <<>>, {}, "other", "absent", {}, {})
    /\ cached_gpu_type = None
    /\ cached_scale_filter = None
    /\ th_pc = [t \in Threads |-> "idle"]
    /\ th_local = [t \in Threads |-> None]
    /\ th_ret = [t \in Threads |-> "unset"]
    /\ lookups = 0
    /\ first_verdict = None
    /\ later_probes = 0
    /\ saw_partial = {}

\* the capability cache after module initialisation on a machine with an NVIDIA GPU
\* whose ffmpeg lists scale_npp
CacheFilled ==
    /\ host = Machine("linux", "present", V570_61, {}, "other", "absent",
                      {"h264_nvenc"}, {"scale_npp"})
    /\ cached_gpu_type = "nvidia"
    /\ cached_scale_filter = "scale_npp"
    /\ th_pc = [t \in Threads |-> "idle"]
    /\ th_local = [t \in Threads |-> None]
    /\ th_ret = [t \in Threads |-> "unset"]
    /\ lookups = 0
    /\ first_verdict = "scale_npp"
    /\ later_probes = 0
    /\ saw_partial = {}

InitEncode ==
    /\ OtherIdle
    /\ phase = "wv_call"
    /\ CacheIdle
    /\ WorkerIdle
    /\ CombineIdle
    /\ video_codec \in ChosenEncoders
    /\ wv_codec \in CodecArgs
    /\ wv_first = NotMade
    /\ wv_retry = NotMade
    /\ wv_result = NoResult
    /\ wv_demotions = 0

\* most demoted calls followed by another call
MaxDemotions == 2

\* A faulty variant of ModuleCodecAfter: a demoted call makes libx264 the module's
\* encoder.
ModuleCodecAfterDemoting(module_codec, result) ==
    IF Len(result.attempts) = 2 THEN "libx264" ELSE module_codec

\* lines 320-347: the function declares no global and assigns neither video_codec
\* nor the cache; codec is a local name (line 326)
ModuleCodecAfter(module_codec, result) == module_codec

\* the whole call: the first attempt, and the retry when the code makes one
WriteVideofile ==
    /\ phase = "wv_call"
    /\ \E first \in WriteOutcomes, retry \in WriteOutcomes :
          LET r == write_videofile_with_fallback(wv_codec, "libx264", video_codec, first, retry) IN
          /\ wv_first' = first
          /\ wv_retry' = IF Len(r.attempts) = 2 THEN retry ELSE NotMade
          /\ wv_result' = r
          /\ wv_demotions' = wv_demotions + (IF Len(r.attempts) = 2 THEN 1 ELSE 0)
          /\ video_codec' = ModuleCodecAfter(video_codec, r)
    /\ phase' = "wv_done"
    /\ UNCHANGED <<wv_codec, cacheVars, workerVars, combineVars, otherVars>>

\* the caller makes another encode, with a codec argument of its choice
WriteAgain ==
    /\ phase = "wv_done"
    /\ wv_demotions < MaxDemotions
    /\ wv_codec' \in CodecArgs
    /\ wv_first' = NotMade
    /\ wv_retry' = NotMade
    /\ wv_result' = NoResult
    /\ phase' = "wv_call"
    /\ UNCHANGED <<video_codec, wv_demotions, cacheVars, workerVars, combineVars, otherVars>>

NextEncode == WriteVideofile \/ WriteAgain

SpecEncode == InitEncode /\ [][NextEncode]_vars

\* the encoder the call starts with (line 325-326)
WvChosen == IF wv_codec = None THEN video_codec ELSE wv_codec

\* C7: a retry with libx264 is made if and only if the chosen encoder is a GPU
\* encoder and the first attempt raised a message holding a keyword (in any case);
\* then there are exactly two attempts and the outcome is the retry's.  Otherwise
\* there is exactly one attempt and its outcome (success, or the error unchanged)
\* is the call's; with libx264 chosen there is exactly one attempt.
C7_FallbackRetryIff ==
    phase = "wv_done" =>
        LET gpu == WvChosen \in {"h264_nvenc", "h264_qsv", "h264_amf", "h264_videotoolbox"}
            retried == Len(wv_result.attempts) = 2
        IN  /\ retried <=> (gpu /\ wv_first.kind = "raised" /\ wv_first.msg \in KeywordMessages)
            /\ retried => /\ wv_result.attempts = <<WvChosen, "libx264">>
                          /\ wv_result.outcome = wv_retry
            /\ ~retried => /\ wv_result.attempts = <<WvChosen>>
                           /\ wv_result.outcome = wv_first
            /\ WvChosen = "libx264" => Len(wv_result.attempts) = 1

\* C7 witness: a GPU encoder failed with an upper-case keyword message, the retry
\* was made and its error is what the caller gets
C7_Witness ==
    /\ phase = "wv_done"
    /\ WvChosen = "h264_nvenc"
    /\ wv_first = Raised(MsgNvencUpper)
    /\ wv_result.attempts = <<"h264_nvenc", "libx264">>
    /\ wv_result.outcome = Raised(MsgDiskFull)

(***************************************************************************)
(* SpecCache: module initialisation, then threads calling                  *)
(* get_gpu_scale_filter_cached.  The interpreter runs one thread at a time *)
(* and can switch thread between any two statements; a probe command lets  *)
(* other threads run until it has finished.                                *)
(***************************************************************************)

EncodeIdle ==
    /\ wv_codec = None
    /\ wv_first = NotMade
    /\ wv_retry = NotMade
    /\ wv_result = NoResult
    /\ wv_demotions = 0

InitCache ==
    /\ OtherIdle
    /\ phase = "import"
    /\ video_codec = "libx264"
    /\ EncodeIdle
    /\ WorkerIdle
    /\ CombineIdle
    /\ host \in Hosts
    /\ cached_gpu_type = None
    /\ cached_scale_filter = None
    /\ th_pc = [t \in Threads |-> "idle"]
    /\ th_local = [t \in Threads |-> None]
    /\ th_ret = [t \in Threads |-> "unset"]
    /\ lookups = 0
    /\ first_verdict = None
    /\ later_probes = 0
    /\ saw_partial = {}

\* lines 349-355, run once by the importing thread before any other thread can
\* call into the module: get_best_video_codec(), then the first lookup
ModuleInit ==
    /\ phase = "import"
    /\ \E e1 \in DetectEnvs(host), enc \in Listings(host.encoders),
          e2 \in DetectEnvs(host), fl \in Listings(host.filters) :
          LET gpu == detect_gpu(e2)
              filter == get_gpu_scale_filter(gpu, fl)
          IN  /\ video_codec' = get_best_video_codec(e1, enc)
              /\ cached_gpu_type' = gpu
              /\ cached_scale_filter' = filter
              /\ first_verdict' = filter
    /\ phase' = "serving"
    /\ UNCHANGED <<encVars, workerVars, combineVars, otherVars, host, th_pc, th_local, th_ret, lookups, later_probes,
                   saw_partial>>

\* a thread calls get_gpu_scale_filter_cached()
Call(t) ==
    /\ phase = "serving"
    /\ th_pc[t] = "idle"
    /\ lookups < MaxLookups
    /\ lookups' = lookups + 1
    /\ th_pc' = [th_pc EXCEPT ![t] = "l285"]
    /\ UNCHANGED <<phase, video_codec, encVars, workerVars, combineVars, otherVars, host, cached_gpu_type,
                   cached_scale_filter, th_local, th_ret, first_verdict,
                   later_probes, saw_partial>>

\* line 285: if _cached_scale_filter is None
Check285(t) ==
    /\ th_pc[t] = "l285"
    /\ th_pc' = [th_pc EXCEPT ![t] = IF cached_scale_filter = None THEN "l286" ELSE "l294"]
    /\ UNCHANGED <<phase, video_codec, encVars, workerVars, combineVars, otherVars, host, cached_gpu_type,
                   cached_scale_filter, th_local, th_ret, lookups, first_verdict,
                   later_probes, saw_partial>>

\* line 286: if _cached_gpu_type is None
Check286(t) ==
    /\ th_pc[t] = "l286"
    /\ th_pc' = [th_pc EXCEPT ![t] = IF cached_gpu_type = None THEN "l287" ELSE "l288"]
    /\ saw_partial' =
          IF cached_gpu_type # None
             /\ \E u \in Threads \ {t} : th_pc[u] \in {"l288", "l288s"}
          THEN saw_partial \cup {t} ELSE saw_partial
    /\ UNCHANGED <<phase, video_codec, encVars, workerVars, combineVars, otherVars, host, cached_gpu_type,
                   cached_scale_filter, th_local, th_ret, lookups, first_verdict,
                   later_probes>>

\* line 287, right-hand side: detect_gpu()
Detect(t) ==
    /\ th_pc[t] = "l287"
    /\ \E e \in DetectEnvs(host) : th_local' = [th_local EXCEPT ![t] = detect_gpu(e)]
    /\ later_probes' = later_probes + 1
    /\ th_pc' = [th_pc EXCEPT ![t] = "l287s"]
    /\ UNCHANGED <<phase, video_codec, encVars, workerVars, combineVars, otherVars, host, cached_gpu_type,
                   cached_scale_filter, th_ret, lookups, first_verdict, saw_partial>>

\* line 287, the assignment to _cached_gpu_type
StoreGpuType(t) ==
    /\ th_pc[t] = "l287s"
    /\ cached_gpu_type' = th_local[t]
    /\ th_pc' = [th_pc EXCEPT ![t] = "l288"]
    /\ UNCHANGED <<phase, video_codec, encVars, workerVars, combineVars, otherVars, host, cached_scale_filter, th_local,
                   th_ret, lookups, first_verdict, later_probes, saw_partial>>

\* line 288, right-hand side: get_gpu_scale_filter(_cached_gpu_type)
ProbeFilter(t) ==
    /\ th_pc[t] = "l288"
    /\ \E fl \in Listings(host.filters) :
          th_local' = [th_local EXCEPT ![t] = get_gpu_scale_filter(cached_gpu_type, fl)]
    /\ later_probes' = later_probes + (IF RunsFilterProbe(cached_gpu_type) THEN 1 ELSE 0)
    /\ th_pc' = [th_pc EXCEPT ![t] = "l288s"]
    /\ UNCHANGED <<phase, video_codec, encVars, workerVars, combineVars, otherVars, host, cached_gpu_type,
                   cached_scale_filter, th_ret, lookups, first_verdict, saw_partial>>

\* line 288, the assignment to _cached_scale_filter
StoreFilter(t) ==
    /\ th_pc[t] = "l288s"
    /\ cached_scale_filter' = th_local[t]
    /\ th_pc' = [th_pc EXCEPT ![t] = "l294"]
    /\ UNCHANGED <<phase, video_codec, encVars, workerVars, combineVars, otherVars, host, cached_gpu_type, th_local,
                   th_ret, lookups, first_verdict, later_probes, saw_partial>>

\* line 294: return _cached_scale_filter
Return(t) ==
    /\ th_pc[t] = "l294"
    /\ th_ret' = [th_ret EXCEPT ![t] = cached_scale_filter]
    /\ th_pc' = [th_pc EXCEPT ![t] = "idle"]
    /\ UNCHANGED <<phase, video_codec, encVars, workerVars, combineVars, otherVars, host, cached_gpu_type,
                   cached_scale_filter, th_local, lookups, first_verdict,
                   later_probes, saw_partial>>

NextCache ==
    \/ ModuleInit
    \/ \E t \in Threads :
          \/ Call(t)
          \/ Check285(t)
          \/ Check286(t)
          \/ Detect(t)
          \/ StoreGpuType(t)
          \/ ProbeFilter(t)
          \/ StoreFilter(t)
          \/ Return(t)

SpecCache == InitCache /\ [][NextCache]_vars

\* the statements between the test of line 285 and the store of line 288
InitSection == {"l286", "l287", "l287s", "l288", "l288s"}

\* C8: once the lookup of module initialisation has completed, no later lookup runs
\* a probe command, and every later lookup returns what that first lookup returned.
C8_ComputedOnce ==
    phase = "serving" =>
        /\ later_probes = 0
        /\ \A t \in Threads : th_ret[t] \in {"unset", first_verdict}

\* C9: callers that overlap never initialise together (so the probe runs at most
\* once however many threads arrive), none of them reads the vendor as set while
\* another thread has not stored the filter yet, and all of them return the same
\* verdict.
C9_SafeConcurrentFirstTouch ==
    /\ Cardinality({t \in Threads : th_pc[t] \in InitSection}) <= 1
    /\ saw_partial = {}
    /\ \A t, u \in Threads :
          (th_ret[t] # "unset" /\ th_ret[u] # "unset") => th_ret[t] = th_ret[u]

(***************************************************************************)
(* SpecWorker: one call of process_single_clip                             *)
(***************************************************************************)

InitWorker ==
    /\ OtherIdle
    /\ phase = "pw_call"
    /\ video_codec \in {"libx264", "h264_nvenc"}
    /\ EncodeIdle
    /\ CacheIdle
    /\ CombineIdle
    /\ \E size \in SourceSizes, target \in {Portrait, Landscape, Square},
          d \in 1..(MaxClipDuration + 1), m \in 0..MaxClipDuration,
          mode \in {None, "none", "fade_in"}, filter \in {None, "scale_npp"} :
          pw_args = [item |-> SubClippedVideoClip(1, 0, d, size[1], size[2]),
                     clip_index |-> 0,
                     video_width |-> target[1], video_height |-> target[2],
                     max_clip_duration |-> m, video_transition_mode |-> mode,
                     gpu_scale_filter |-> filter]
    /\ pw_result = NoneResult(0, {})

ProcessSingleClip ==
    /\ phase = "pw_call"
    /\ \E env \in WorkerEnvs :
          pw_result' = process_single_clip(pw_args.item, pw_args.clip_index,
                          pw_args.video_width, pw_args.video_height,
                          pw_args.max_clip_duration, pw_args.video_transition_mode,
                          pw_args.gpu_scale_filter, video_codec, env)
    /\ phase' = "pw_done"
    /\ UNCHANGED <<video_codec, encVars, cacheVars, combineVars, otherVars, pw_args>>

NextWorker == ProcessSingleClip

SpecWorker == InitWorker /\ [][NextWorker]_vars

\* C5: every clip record process_single_clip returns has the target width and the
\* target height.
C5_RecordHasTargetSize ==
    (phase = "pw_done" /\ pw_result.kind = "clip") =>
        /\ pw_result.width = pw_args.video_width
        /\ pw_result.height = pw_args.video_height

(***************************************************************************)
(* SpecCombine: one call of combine_videos                                 *)
(***************************************************************************)

nonCombine == <<video_codec, encVars, cacheVars, workerVars, otherVars>>

InitCombine ==
    /\ OtherIdle
    /\ phase = "cv_call"
    /\ video_codec = "h264_nvenc"
    /\ EncodeIdle
    /\ CacheFilled
    /\ WorkerIdle
    /\ \E paths \in SourceLists, audio \in 1..MaxAudio, m \in 0..MaxClipDuration,
          aspect \in {"portrait", "original"}, mode \in {"sequential", "random"},
          transition \in {None, "fade_in"} :
          cv_args = [video_paths |-> paths, audio_duration |-> audio,
                     video_aspect |-> aspect, video_concat_mode |-> mode,
                     video_transition_mode |-> transition, max_clip_duration |-> m]
    /\ subclipped_items = <<>>
    /\ src_idx = 0
    /\ start_time = 0
    /\ video_width = 0
    /\ video_height = 0
    /\ gpu_scale_filter = None
    /\ max_workers = 0
    /\ pending = {}
    /\ processed_clips_dict = <<>>
    /\ failed = {}
    /\ video_duration = 0
    /\ processed_clips = <<>>
    /\ base_clips = <<>>
    /\ merge_i = 0
    /\ files = {}
    /\ fast_failure = ""
    /\ cv_error = ""

\* lines 625-639.  Line 629 divides by len(video_paths).
CombineStart ==
    /\ phase = "cv_call"
    /\ IF Len(cv_args.video_paths) = 0
       THEN /\ phase' = "cv_raised"
            /\ cv_error' = "ZeroDivisionError"
            /\ UNCHANGED <<video_width, video_height, src_idx>>
       ELSE /\ phase' = "plan"
            /\ video_width' = to_resolution(cv_args.video_aspect)[1]
            /\ video_height' = to_resolution(cv_args.video_aspect)[2]
            /\ src_idx' = 1
            /\ UNCHANGED cv_error
    /\ UNCHANGED <<nonCombine, cv_args, subclipped_items, start_time, gpu_scale_filter,
                   max_workers, pending, processed_clips_dict, failed, video_duration,
                   processed_clips, base_clips, merge_i, files, fast_failure>>

\* lines 648-654: one pass of the while loop over the source src_idx
PlanWindow ==
    /\ phase = "plan"
    /\ src_idx <= Len(cv_args.video_paths)
    /\ Len(subclipped_items) < MaxWindows
    /\ LET source == cv_args.video_paths[src_idx]
           clip_duration == source.duration
           end_time == Min(start_time + cv_args.max_clip_duration, clip_duration)
       IN  /\ start_time < clip_duration
           /\ subclipped_items' =
                 IF FullWindow(clip_duration, start_time, cv_args.max_clip_duration)
                 THEN Append(subclipped_items,
                             SubClippedVideoClip(src_idx, start_time, end_time,
                                                 SourceSize(src_idx)[1],
                                                 SourceSize(src_idx)[2]))
                 ELSE subclipped_items
           /\ IF BreaksAfterFirstPass(cv_args.video_concat_mode)
              THEN src_idx' = src_idx + 1 /\ start_time' = 0
              ELSE src_idx' = src_idx /\ start_time' = end_time
    /\ UNCHANGED <<nonCombine, phase, cv_args, video_width, video_height,
                   gpu_scale_filter, max_workers, pending, processed_clips_dict, failed,
                   video_duration, processed_clips, base_clips, merge_i, files,
                   fast_failure, cv_error>>

\* line 648 when its test fails: the for loop of line 640 takes the next source
PlanSourceDone ==
    /\ phase = "plan"
    /\ src_idx <= Len(cv_args.video_paths)
    /\ ~(start_time < cv_args.video_paths[src_idx].duration)
    /\ src_idx' = src_idx + 1
    /\ start_time' = 0
    /\ UNCHANGED <<nonCombine, phase, cv_args, subclipped_items, video_width,
                   video_height, gpu_scale_filter, max_workers, pending,
                   processed_clips_dict, failed, video_duration, processed_clips,
                   base_clips, merge_i, files, fast_failure, cv_error>>

\* lines 656-674: the shuffle, the target of the original aspect, and the scale
\* filter, which get_gpu_scale_filter_cached returns from the cache (lines 285, 294)
PlanDone ==
    /\ phase = "plan"
    /\ src_idx > Len(cv_args.video_paths)
    /\ \E shuffled \in IF cv_args.video_concat_mode = "random"
                       THEN Shuffles(subclipped_items) ELSE {subclipped_items} :
          /\ subclipped_items' = shuffled
          /\ IF video_width = 0 \/ video_height = 0
             THEN /\ video_width' = OriginalTarget(shuffled)[1]
                  /\ video_height' = OriginalTarget(shuffled)[2]
             ELSE UNCHANGED <<video_width, video_height>>
    /\ gpu_scale_filter' = cached_scale_filter
    /\ phase' = "dispatch"
    /\ UNCHANGED <<nonCombine, cv_args, src_idx, start_time, max_workers, pending,
                   processed_clips_dict, failed, video_duration, processed_clips,
                   base_clips, merge_i, files, fast_failure, cv_error>>

\* os.cpu_count() or 4, on a machine that reports no count
DefaultCpuCount == 4

\* lines 678-705.  ThreadPoolExecutor raises ValueError when max_workers <= 0.
Dispatch ==
    /\ phase = "dispatch"
    /\ max_workers' = Min(Len(subclipped_items), Max(1, DefaultCpuCount))
    /\ IF max_workers' <= 0
       THEN /\ phase' = "cv_raised"
            /\ cv_error' = "ValueError"
            /\ UNCHANGED pending
       ELSE /\ phase' = "collect"
            /\ pending' = ClipsToProcess(subclipped_items, video_duration,
                                         cv_args.audio_duration)
            /\ UNCHANGED cv_error
    /\ UNCHANGED <<nonCombine, cv_args, subclipped_items, src_idx, start_time,
                   video_width, video_height, gpu_scale_filter, processed_clips_dict,
                   failed, video_duration, processed_clips, base_clips, merge_i, files,
                   fast_failure>>

\* lines 708-719: the worker of window i finishes, in any order among the pending
\* ones, and the collecting loop takes its result.  An exception of future.result()
\* is caught at line 718.
Complete(i) ==
    /\ phase = "collect"
    /\ i \in pending
    /\ \E env \in SingleFailureEnvs \ {e \in SingleFailureEnvs : e.partial} :
          LET result == process_single_clip(subclipped_items[i + 1], i, video_width,
                            video_height, cv_args.max_clip_duration,
                            cv_args.video_transition_mode, gpu_scale_filter,
                            video_codec, env)
          IN  /\ files' = files \cup result.left
              /\ IF result.kind = "clip"
                 THEN /\ processed_clips_dict' = Append(processed_clips_dict, <<i, result>>)
                      /\ video_duration' = video_duration + result.duration
                      /\ UNCHANGED failed
                 ELSE /\ failed' = failed \cup {<<i, result.kind>>}
                      /\ UNCHANGED <<processed_clips_dict, video_duration>>
    /\ pending' = pending \ {i}
    /\ UNCHANGED <<nonCombine, phase, cv_args, subclipped_items, src_idx, start_time,
                   video_width, video_height, gpu_scale_filter, max_workers,
                   processed_clips, base_clips, merge_i, fast_failure, cv_error>>

\* line 722, once every future has been collected
Build ==
    /\ phase = "collect"
    /\ pending = {}
    /\ processed_clips' = SortedClips(processed_clips_dict)
    /\ phase' = "built"
    /\ UNCHANGED <<nonCombine, cv_args, subclipped_items, src_idx, start_time,
                   video_width, video_height, gpu_scale_filter, max_workers, pending,
                   processed_clips_dict, failed, video_duration, base_clips, merge_i,
                   files, fast_failure, cv_error>>

\* lines 725-727.  processed_clips_dict is not read after line 722; it is emptied
\* here.
LoopCheck ==
    /\ phase = "built"
    /\ IF video_duration < cv_args.audio_duration
       THEN base_clips' = processed_clips /\ phase' = "looping"
       ELSE UNCHANGED base_clips /\ phase' = "merge"
    /\ processed_clips_dict' = <<>>
    /\ UNCHANGED <<nonCombine, cv_args, subclipped_items, src_idx, start_time,
                   video_width, video_height, gpu_scale_filter, max_workers, pending,
                   failed, video_duration, processed_clips, merge_i, files,
                   fast_failure, cv_error>>

\* lines 728-732: one pass of the loop over itertools.cycle(base_clips), which
\* yields nothing when base_clips is empty
LoopStep ==
    /\ phase = "looping"
    /\ IF Len(base_clips) = 0 \/ LoopDone(video_duration, cv_args.audio_duration)
       THEN /\ phase' = "merge"
            /\ UNCHANGED <<processed_clips, video_duration>>
       ELSE /\ Len(processed_clips) < MaxListLen
            /\ LET k == CycleIndex(Len(processed_clips) - Len(base_clips), Len(base_clips))
                   clip == base_clips[k + 1]
               IN  /\ processed_clips' = Append(processed_clips, clip)
                   /\ video_duration' = video_duration + clip.duration
            /\ UNCHANGED phase
    /\ UNCHANGED <<nonCombine, cv_args, subclipped_items, src_idx, start_time,
                   video_width, video_height, gpu_scale_filter, max_workers, pending,
                   processed_clips_dict, failed, base_clips, merge_i, files,
                   fast_failure, cv_error>>

\* lines 737-747: no clip, or a single clip
MergeStart ==
    /\ phase = "merge"
    /\ IF Len(processed_clips) = 0
       THEN /\ phase' = "cv_returned"
            /\ UNCHANGED <<files, cv_error>>
       ELSE IF Len(processed_clips) = 1
       THEN IF File("temp-clip", processed_clips[1].n) \in files
            THEN /\ files' = delete_files(files \cup {OutputFile},
                                          ClipObjectsAsPaths(processed_clips))
                 /\ phase' = "cv_returned"
                 /\ UNCHANGED cv_error
            ELSE /\ phase' = "cv_raised"
                 /\ cv_error' = "FileNotFoundError"
                 /\ UNCHANGED files
       ELSE /\ phase' = "fast"
            /\ UNCHANGED <<files, cv_error>>
    /\ UNCHANGED <<nonCombine, cv_args, subclipped_items, src_idx, start_time,
                   video_width, video_height, gpu_scale_filter, max_workers, pending,
                   processed_clips_dict, failed, video_duration, processed_clips,
                   base_clips, merge_i, fast_failure>>

\* lines 751-809: the concat demuxer.  Every failure leads to line 811.
FastConcat ==
    /\ phase = "fast"
    /\ \E o \in FastOutcomes :
          IF o.list = "raise"
          THEN /\ fast_failure' = "list"
               /\ phase' = "fallback"
               /\ UNCHANGED files
          ELSE IF o.run = "spawn_raise"
          THEN /\ fast_failure' = "spawn"
               /\ phase' = "fallback"
               /\ files' = files \cup {ConcatList}
          ELSE IF o.run = "rc0" /\ o.output
          THEN /\ files' = delete_files((files \cup {ConcatList, OutputFile}) \ {ConcatList},
                                        ClipPaths(processed_clips))
               /\ phase' = "cv_returned"
               /\ UNCHANGED fast_failure
          ELSE /\ fast_failure' = (IF o.run = "rc0" THEN "missing" ELSE o.run)
               /\ phase' = "fallback"
               /\ files' = files \cup {ConcatList}
                                 \cup (IF o.output THEN {OutputFile} ELSE {})
    /\ UNCHANGED <<nonCombine, cv_args, subclipped_items, src_idx, start_time,
                   video_width, video_height, gpu_scale_filter, max_workers, pending,
                   processed_clips_dict, failed, video_duration, processed_clips,
                   base_clips, merge_i, cv_error>>

\* lines 813-818: shutil.copy of the first clip
FallbackSeed ==
    /\ phase = "fallback"
    /\ IF File("temp-clip", processed_clips[1].n) \in files
       THEN /\ files' = files \cup {TempMergedVideo}
            /\ merge_i' = 2
            /\ phase' = "fb_merge"
            /\ UNCHANGED cv_error
       ELSE /\ phase' = "cv_raised"
            /\ cv_error' = "FileNotFoundError"
            /\ UNCHANGED <<files, merge_i>>
    /\ UNCHANGED <<nonCombine, cv_args, subclipped_items, src_idx, start_time,
                   video_width, video_height, gpu_scale_filter, max_workers, pending,
                   processed_clips_dict, failed, video_duration, processed_clips,
                   base_clips, fast_failure>>

\* A faulty variant of AfterMergeStep: the clip that was merged is removed at once.
AfterMergeStepDropsClip(existing, clip) == existing \ {File("temp-clip", clip.n)}

\* lines 824-853: what one pass of the merge loop leaves in output_dir.  The merged
\* file takes the place of temp-merged-video (lines 848-849), or the step fails and
\* is skipped; the file of the clip is read and kept.
AfterMergeStep(existing, clip) == existing

\* lines 821-853: one pass of the merge loop.  The step merges the clip into
\* temp-merged-video, or fails, is logged and skipped: either way temp-merged-video
\* is there afterwards.
FallbackMerge ==
    /\ phase = "fb_merge"
    /\ merge_i <= Len(processed_clips)
    /\ merge_i' = merge_i + 1
    /\ files' = AfterMergeStep(files, processed_clips[merge_i])
    /\ UNCHANGED <<nonCombine, phase, cv_args, subclipped_items, src_idx, start_time,
                   video_width, video_height, gpu_scale_filter, max_workers, pending,
                   processed_clips_dict, failed, video_duration, processed_clips,
                   base_clips, fast_failure, cv_error>>

\* lines 856-871.  os.rename raises FileExistsError on Windows (os.name "nt") when
\* the destination exists, and replaces the destination elsewhere.
FallbackFinish ==
    /\ phase = "fb_merge"
    /\ merge_i > Len(processed_clips)
    /\ \E os_name \in {"nt", "posix"} :
          IF os_name = "nt" /\ OutputFile \in files
          THEN /\ phase' = "cv_raised"
               /\ cv_error' = "FileExistsError"
               /\ UNCHANGED files
          ELSE /\ files' = delete_files(
                              delete_files((files \ {TempMergedVideo}) \cup {OutputFile},
                                           ClipPaths(processed_clips)),
                              {ConcatList})
               /\ phase' = "cv_returned"
               /\ UNCHANGED cv_error
    /\ UNCHANGED <<nonCombine, cv_args, subclipped_items, src_idx, start_time,
                   video_width, video_height, gpu_scale_filter, max_workers, pending,
                   processed_clips_dict, failed, video_duration, processed_clips,
                   base_clips, merge_i, fast_failure>>

NextCombine ==
    \/ CombineStart
    \/ PlanWindow
    \/ PlanSourceDone
    \/ PlanDone
    \/ Dispatch
    \/ \E i \in pending : Complete(i)
    \/ Build
    \/ LoopCheck
    \/ LoopStep
    \/ MergeStart
    \/ FastConcat
    \/ FallbackSeed
    \/ FallbackMerge
    \/ FallbackFinish

SpecCombine == InitCombine /\ [][NextCombine]_vars

\* combine_videos under a scheduler that keeps running it: a statement that can run
\* does run.  MaxWindows and MaxListLen are above what a loop that ends can reach,
\* so a run that stays at one of them stands for a loop that goes on.
SpecCombineFair == SpecCombine /\ WF_vars(NextCombine)

\* the phases in which the clip list is in the hands of the concatenator
Concatenating == {"merge", "fast", "fallback", "fb_merge", "cv_returned"}

\* C1: when the list of processed clips has been built, it lists the clips in
\* strictly ascending order of their window index, and holds exactly the clips the
\* workers returned, whatever the order in which the workers completed.
C1_AscendingInputOrder ==
    phase = "built" =>
        /\ \A k \in 1..(Len(processed_clips) - 1) :
              processed_clips[k].n < processed_clips[k + 1].n
        /\ Len(processed_clips) = Len(processed_clips_dict)
        /\ \A k \in 1..Len(processed_clips_dict) :
              \E j \in 1..Len(processed_clips) :
                  /\ processed_clips[j] = processed_clips_dict[k][2]
                  /\ processed_clips[j].n = processed_clips_dict[k][1] + 1

\* C1 witness: two workers completed in descending index order, a third window's
\* worker or none failed, and the list has been built
C1_Witness ==
    /\ phase = "built"
    /\ Len(processed_clips_dict) >= 2
    /\ processed_clips_dict[1][1] > processed_clips_dict[2][1]

\* C2: when the clip list reaches the concatenator and holds at least one clip, its
\* recorded durations add up to the narration duration or more.
C2_CoversNarration ==
    (phase \in Concatenating /\ Len(processed_clips) >= 1) =>
        SumDuration(processed_clips) >= cv_args.audio_duration

\* C2 witness: a worker failed, the clips that succeeded were shorter than the
\* narration, and the list was extended by looping
C2_Witness ==
    /\ phase = "merge"
    /\ failed # {}
    /\ Len(base_clips) >= 1
    /\ Len(processed_clips) > Len(base_clips)

\* C3: with no processed clip, combine_videos does not raise (here for a call that
\* was given at least one source).
C3_NoClipsReturnsPath ==
    (Len(cv_args.video_paths) >= 1 /\ Len(processed_clips) = 0) => phase # "cv_raised"

\* C4: a worker in which a step failed hands back None, never an exception; and
\* once every worker has been collected, the clips of all the workers that did not
\* fail are in the list.
C4_WorkerFailureContained ==
    /\ \A f \in failed : f[2] = "none"
    /\ phase = "built" =>
          {processed_clips[k].n - 1 : k \in 1..Len(processed_clips)}
             = (0..(Len(subclipped_items) - 1)) \ {f[1] : f \in failed}

\* C4 witness: one worker failed, another returned a clip, and combine_videos has
\* gone on to the concatenation with it
C4_Witness ==
    /\ phase \in {"fast", "cv_returned"}
    /\ failed # {}
    /\ Len(base_clips) >= 1

\* C6: every planned window lies inside its source, is not empty, and is exactly
\* max_clip_duration long.
C6_WindowInvariant ==
    \A k \in 1..Len(subclipped_items) :
        LET w == subclipped_items[k] IN
        /\ 0 <= w.start_time
        /\ w.start_time < w.end_time
        /\ w.end_time <= cv_args.video_paths[w.file_path].duration
        /\ w.end_time - w.start_time = cv_args.max_clip_duration

\* C10: once the fast concat has failed, combine_videos does not raise.
C10_FastFailureFallsBack ==
    fast_failure # "" => phase # "cv_raised"

\* C11: when combine_videos has returned with at least one processed clip, the
\* concat list and the temp-clip file of every processed clip are gone.
C11_TempsDeletedOnSuccess ==
    (phase = "cv_returned" /\ Len(processed_clips) >= 1) =>
        /\ ConcatList \notin files
        /\ ClipPaths(processed_clips) \cap files = {}

(***************************************************************************)
(* SpecGenerate: one call of generate_video                                *)
(***************************************************************************)

\* most subtitle items an SRT file holds
MaxCues == 2

AssFile == "subtitle.ass"
TempNoSubtitle == "temp_no_subtitle.mp4"
GvOutput == "output_file"

\* srt_to_ass(srt_path, ass_path, params, ...).  items is the number of subtitle
\* items file_to_subtitles parsed, events the number of them that give a Dialogue
\* line (a time line that matches, a text that is not blank), write what writing the
\* file does.  ok is the value handed back, why the reason of a False, wrote whether
\* subtitle.ass is on disk afterwards.
srt_to_ass(items, events, subtitle_enabled, font_exists, write) ==
    IF items = 0
    THEN [ok |-> FALSE, why |-> "NoCues", wrote |-> FALSE]
    ELSE IF subtitle_enabled /\ ~font_exists
    THEN [ok |-> FALSE, why |-> "FontMissing", wrote |-> FALSE]
    ELSE IF events = 0
    THEN [ok |-> FALSE, why |-> "NoCues", wrote |-> FALSE]
    ELSE IF write # "ok"
    THEN [ok |-> FALSE, why |-> "write", wrote |-> (write = "raise_partial")]
    ELSE [ok |-> TRUE, why |-> "", wrote |-> TRUE]

\* the test of lines 1303 and 1324
SubtitlesWanted == gv_args.subtitle_path /\ gv_args.srt_exists /\ gv_args.subtitle_enabled

\* the encodes generate_video makes: what write_videofile_with_fallback does with
\* the module's encoder
GvEncodes ==
    { write_videofile_with_fallback(None, "libx264", video_codec, first, retry).outcome.kind :
        first \in {Ok, Raised(MsgNoNvenc), Raised(MsgDiskFull)},
        retry \in {Ok, Raised(MsgDiskFull)} }

\* A faulty variant of AfterBurnFailure: the handler of line 1549 does not catch the
\* timeout of subprocess.run.
AfterBurnFailureTimeoutEscapes(kind) ==
    IF kind = "timeout" THEN "gv_raised"
    ELSE IF kind \in {"rc_nonzero", "missing"} THEN "gv_inline"
    ELSE "gv_except"

\* where a failure of the burn path leads: a command that ran and failed is followed
\* by the composite of lines 1502-1548, an exception by the handler of line 1549
AfterBurnFailure(kind) ==
    IF kind \in {"rc_nonzero", "missing"} THEN "gv_inline" ELSE "gv_except"

\* lines 1478-1484, 1542-1548, 1589-1595: the temporary video and subtitle.ass are removed
RemoveGvTemps(existing) == existing \ {TempNoSubtitle, AssFile}

\* most mp3 files song_dir holds
MaxSongs == 1

\* params.bgm_file: a path that does not exist, a path that does
BgmMissing == "missing.mp3"
BgmGiven == "bgm.mp3"
\* a file of song_dir
Song == "song.mp3"
\* what random.choice raises on an empty list
IndexError == "IndexError"

Narration == "narration"
NarrationAndBgm == "narration+bgm"

\* lines 454-467.  songs is the number of mp3 files of song_dir; the value is the
\* path handed back, "" for no music, or IndexError when random.choice is given the
\* empty list.
get_bgm_file(bgm_type, bgm_file, songs) ==
    IF bgm_type = "" THEN ""
    ELSE IF bgm_file = BgmGiven THEN bgm_file
    ELSE IF bgm_type = "random" THEN (IF songs = 0 THEN IndexError ELSE Song)
    ELSE ""

\* lines 1344-1355: the narration, with the music under it when the file could be
\* read; a failure is logged and the narration is kept
MixBgm(bgm, readable) ==
    IF bgm # "" /\ readable THEN NarrationAndBgm ELSE Narration

\* lines 1507-1509: the composite after a failed command loads the narration again
ReloadNarration(audio) == Narration

InitGenerate ==
    /\ phase = "gv_call"
    /\ TextIdle
    /\ ProbeIdle
    /\ video_codec = "h264_nvenc"
    /\ wv_codec = None /\ wv_first = NotMade /\ wv_retry = NotMade /\ wv_result = NoResult
    /\ wv_demotions = 0
    /\ CacheFilled
    /\ WorkerIdle
    /\ CombineIdle
    /\ gv_args \in { a \in [subtitle_path : BOOLEAN, srt_exists : BOOLEAN,
                           subtitle_enabled : BOOLEAN, os_name : {"nt", "posix"},
                           items : 0..MaxCues, events : 0..MaxCues,
                           font_exists : BOOLEAN,
                           filters : Listings({"ass"}) \cup Listings({}),
                           bgm_type : {"", "random", "custom"},
                           bgm_file : {"", BgmMissing, BgmGiven},
                           songs : 0..MaxSongs,
                           bgm_readable : BOOLEAN] :
                       /\ a.events <= a.items
                       /\ a.srt_exists => a.subtitle_path
                       /\ ~a.srt_exists => a.items = 0
                       /\ a.bgm_type # "random" => a.songs = 0
                       /\ get_bgm_file(a.bgm_type, a.bgm_file, a.songs) \in {"", IndexError}
                              => a.bgm_readable }
    /\ use_ffmpeg_subtitle = FALSE
    /\ ass_path = None
    /\ ass_failure = ""
    /\ gv_files = {}
    /\ burn_invoked = FALSE
    /\ burn_outcome = ""
    /\ text_overlay_runs = 0
    /\ composite_encode = ""
    /\ gv_error = ""
    /\ audio_clip = ""
    /\ output_audio = ""

nonGenerate == <<video_codec, encVars, cacheVars, workerVars, combineVars, textVars, probeVars>>

\* lines 1300-1316: the choice between the burn path and the MoviePy overlay
GvSubtitles ==
    /\ phase = "gv_call"
    /\ IF SubtitlesWanted
       THEN \E write \in {"ok", "raise", "raise_partial"} :
              LET r == srt_to_ass(gv_args.items, gv_args.events, gv_args.subtitle_enabled,
                                  gv_args.font_exists, write)
              IN  /\ ass_path' = AssFile
                  /\ ass_failure' = r.why
                  /\ gv_files' = gv_files \cup (IF r.wrote THEN {AssFile} ELSE {})
                  /\ use_ffmpeg_subtitle' = (r.ok /\ check_ffmpeg_support("ass", gv_args.filters))
       ELSE UNCHANGED <<ass_path, ass_failure, gv_files, use_ffmpeg_subtitle>>
    /\ phase' = "gv_overlay"
    /\ UNCHANGED <<nonGenerate, gv_args, burn_invoked, burn_outcome, text_overlay_runs,
                   composite_encode, gv_error, audio_clip, output_audio>>

\* lines 1318-1360: the narration is loaded, the MoviePy text overlay is composed
\* when the burn path was not chosen, the music is chosen (line 1343, outside every
\* try) and mixed (lines 1344-1355), and the branch of line 1360 is taken
GvOverlay ==
    /\ phase = "gv_overlay"
    /\ LET next == IF use_ffmpeg_subtitle /\ ass_path # None
                   THEN "gv_burn_temp" ELSE "gv_plain"
           bgm == get_bgm_file(gv_args.bgm_type, gv_args.bgm_file, gv_args.songs)
           after == IF bgm = IndexError THEN "gv_raised" ELSE next
           error == IF bgm = IndexError THEN IndexError ELSE gv_error
           audio == IF bgm = IndexError THEN Narration
                    ELSE MixBgm(bgm, gv_args.bgm_readable)
       IN  IF SubtitlesWanted /\ ~use_ffmpeg_subtitle
           THEN /\ text_overlay_runs' = text_overlay_runs + 1
                /\ \E o \in {"ok", "raise"} :
                      IF o = "ok"
                      THEN phase' = after /\ gv_error' = error /\ audio_clip' = audio
                      ELSE /\ phase' = "gv_raised"
                           /\ gv_error' = "overlay"
                           /\ audio_clip' = Narration
           ELSE /\ phase' = after
                /\ gv_error' = error
                /\ audio_clip' = audio
                /\ UNCHANGED text_overlay_runs
    /\ UNCHANGED <<nonGenerate, gv_args, use_ffmpeg_subtitle, ass_path, ass_failure,
                   gv_files, burn_invoked, burn_outcome, composite_encode, output_audio>>

\* lines 1596-1616: the single encode when the burn path was not chosen
GvPlain ==
    /\ phase = "gv_plain"
    /\ \E o \in GvEncodes :
          /\ composite_encode' = IF text_overlay_runs > 0 THEN o ELSE composite_encode
          /\ IF o = "ok"
             THEN /\ gv_files' = (gv_files \cup {GvOutput})
                                    \ (IF ass_path # None THEN {AssFile} ELSE {})
                  /\ output_audio' = audio_clip
                  /\ phase' = "gv_returned"
                  /\ UNCHANGED gv_error
             ELSE /\ phase' = "gv_raised"
                  /\ gv_error' = "encode"
                  /\ UNCHANGED <<gv_files, output_audio>>
    /\ UNCHANGED <<nonGenerate, gv_args, use_ffmpeg_subtitle, ass_path, ass_failure,
                   burn_invoked, burn_outcome, text_overlay_runs, audio_clip>>

\* lines 1362-1375: the temporary video without subtitles
GvBurnTemp ==
    /\ phase = "gv_burn_temp"
    /\ \E o \in GvEncodes, partial \in BOOLEAN :
          IF o = "ok"
          THEN /\ partial
               /\ gv_files' = gv_files \cup {TempNoSubtitle}
               /\ phase' = "gv_burn_cmd"
               /\ UNCHANGED <<burn_outcome, gv_error>>
          ELSE /\ gv_files' = gv_files \cup (IF partial THEN {TempNoSubtitle} ELSE {})
               /\ burn_outcome' = "temp_write"
               /\ phase' = AfterBurnFailure("temp_write")
               /\ gv_error' = IF AfterBurnFailure("temp_write") = "gv_raised"
                              THEN "temp_write" ELSE gv_error
    /\ UNCHANGED <<nonGenerate, gv_args, use_ffmpeg_subtitle, ass_path, ass_failure,
                   burn_invoked, text_overlay_runs, composite_encode, audio_clip,
                   output_audio>>

\* lines 1380-1485: the ffmpeg command is put together and run.  font_dir_abs is
\* bound at line 1395 only, inside the branch for os.name "nt": elsewhere the log
\* line 1453 that reads it raises UnboundLocalError before the command is run.
GvBurnCmd ==
    /\ phase = "gv_burn_cmd"
    /\ \E run \in {"spawn", "timeout", "rc0", "rc_nonzero"}, output \in BOOLEAN :
          LET kind == IF gv_args.os_name # "nt" THEN "unbound_local"
                      ELSE IF AssFile \notin gv_files THEN "ass_missing"
                      ELSE IF ~gv_args.font_exists THEN "font_dir_missing"
                      ELSE IF run = "rc0" THEN (IF output THEN "ok" ELSE "missing")
                      ELSE run
              ran == kind \in {"spawn", "timeout", "rc_nonzero", "missing", "ok"}
              left == IF ran /\ output /\ kind # "spawn" THEN {GvOutput} ELSE {}
          IN  /\ burn_invoked' = ran
              /\ burn_outcome' = kind
              /\ IF kind = "ok"
                 THEN /\ gv_files' = RemoveGvTemps(gv_files \cup {GvOutput})
                      /\ output_audio' = audio_clip
                      /\ phase' = "gv_returned"
                      /\ UNCHANGED gv_error
                 ELSE /\ gv_files' = gv_files \cup left
                      /\ phase' = AfterBurnFailure(kind)
                      /\ gv_error' = IF AfterBurnFailure(kind) = "gv_raised"
                                     THEN kind ELSE gv_error
                      /\ UNCHANGED output_audio
    /\ UNCHANGED <<nonGenerate, gv_args, use_ffmpeg_subtitle, ass_path, ass_failure,
                   text_overlay_runs, composite_encode, audio_clip>>

\* lines 1502-1548: the composite after a command that ran and failed; it is inside
\* the try of line 1363, so what it raises is caught at line 1549.  The narration is
\* loaded again at line 1507, before the overlay is composed, and the handler goes on
\* with the audio_clip it finds.
GvInline ==
    /\ phase = "gv_inline"
    /\ text_overlay_runs' = text_overlay_runs + 1
    /\ audio_clip' = ReloadNarration(audio_clip)
    /\ \E overlay \in {"ok", "raise"}, o \in GvEncodes :
          IF overlay = "raise"
          THEN /\ phase' = "gv_except"
               /\ UNCHANGED <<gv_files, composite_encode, output_audio>>
          ELSE /\ composite_encode' = o
               /\ IF o = "ok"
                  THEN /\ gv_files' = RemoveGvTemps(gv_files \cup {GvOutput})
                       /\ output_audio' = audio_clip'
                       /\ phase' = "gv_returned"
                  ELSE /\ phase' = "gv_except"
                       /\ UNCHANGED <<gv_files, output_audio>>
    /\ UNCHANGED <<nonGenerate, gv_args, use_ffmpeg_subtitle, ass_path, ass_failure,
                   burn_invoked, burn_outcome, gv_error>>

\* lines 1549-1595: the handler of the burn path
GvExcept ==
    /\ phase = "gv_except"
    /\ text_overlay_runs' = text_overlay_runs + 1
    /\ \E overlay \in {"ok", "raise"}, o \in GvEncodes :
          IF overlay = "raise"
          THEN /\ phase' = "gv_raised"
               /\ gv_error' = "overlay"
               /\ UNCHANGED <<gv_files, composite_encode, output_audio>>
          ELSE /\ composite_encode' = o
               /\ IF o = "ok"
                  THEN /\ gv_files' = RemoveGvTemps(gv_files \cup {GvOutput})
                       /\ output_audio' = audio_clip
                       /\ phase' = "gv_returned"
                       /\ UNCHANGED gv_error
                  ELSE /\ phase' = "gv_raised"
                       /\ gv_error' = "encode"
                       /\ UNCHANGED <<gv_files, output_audio>>
    /\ UNCHANGED <<nonGenerate, gv_args, use_ffmpeg_subtitle, ass_path, ass_failure,
                   burn_invoked, burn_outcome, audio_clip>>

NextGenerate ==
    \/ GvSubtitles
    \/ GvOverlay
    \/ GvPlain
    \/ GvBurnTemp
    \/ GvBurnCmd
    \/ GvInline
    \/ GvExcept

SpecGenerate == InitGenerate /\ [][NextGenerate]_vars

GvDone == phase \in {"gv_returned", "gv_raised"}

\* C12: when the burn path was chosen (the SRT exists, subtitles are enabled, the
\* transcode succeeded, ffmpeg lists the ass filter) and the temporary video was
\* written, the ffmpeg burn command is run, on every platform; and when it exits 0
\* with the output in place, generate_video returns the burn result and no MoviePy
\* overlay is composed.
C12_BurnCommandInvoked ==
    (GvDone /\ use_ffmpeg_subtitle /\ burn_outcome # "temp_write") =>
        /\ burn_invoked
        /\ burn_outcome = "ok" =>
              /\ phase = "gv_returned"
              /\ GvOutput \in gv_files
              /\ text_overlay_runs = 0

\* C13: once the burn path has failed, in whatever way, generate_video ends only
\* after a MoviePy composite was run; if the composite's encode succeeded the call
\* returns with the output file in place; and an exception that leaves the call is
\* the composite's, never the burn path's.
C13_BurnFailureFallsBack ==
    (GvDone /\ burn_outcome \notin {"", "ok"}) =>
        /\ text_overlay_runs >= 1
        /\ composite_encode = "ok" => (phase = "gv_returned" /\ GvOutput \in gv_files)
        /\ phase = "gv_raised" => gv_error \in {"overlay", "encode"}
        /\ phase = "gv_returned" => gv_error = ""

\* C13 witness: the ffmpeg command timed out, the composite was encoded, and the call
\* returned with the output file
C13_Witness ==
    /\ phase = "gv_returned"
    /\ burn_outcome = "timeout"
    /\ composite_encode = "ok"
    /\ GvOutput \in gv_files

\* C14: after generate_video returns, subtitle.ass is gone if the burn path
\* succeeded and is still there if the burn path failed.
C14_AssRetainedOnFailure ==
    (phase = "gv_returned" /\ burn_outcome # "") =>
        IF burn_outcome = "ok" THEN AssFile \notin gv_files ELSE AssFile \in gv_files

\* C15: when the transcoder failed with NoCues or FontMissing, neither the burn
\* command nor a MoviePy text overlay is run.
C15_SubtitlesDisabledOnTranscodeFailure ==
    (GvDone /\ ass_failure \in {"NoCues", "FontMissing"}) =>
        /\ ~burn_invoked
        /\ text_overlay_runs = 0

\* C16: when process_single_clip has returned, temp-input-{n}.mp4 and
\* temp-resized-{n}.mp4 are gone, and temp-clip-{n}.mp4 is there only with a
\* result that is a clip.
C16_WorkerLeavesNoTemps ==
    phase = "pw_done" =>
        LET n == pw_args.clip_index + 1 IN
        /\ File("temp-input", n) \notin pw_result.left
        /\ File("temp-resized", n) \notin pw_result.left
        /\ pw_result.kind # "clip" => File("temp-clip", n) \notin pw_result.left

(***************************************************************************)
(* SpecText: one call of hex_to_ass_color or of srt_time_to_ass_time       *)
(***************************************************************************)

\* str.strip() on blanks
RECURSIVE Strip(_)
Strip(s) ==
    IF Len(s) = 0 THEN s
    ELSE IF s[1] = " " THEN Strip(Tail(s))
    ELSE IF s[Len(s)] = " " THEN Strip(SubSeq(s, 1, Len(s) - 1))
    ELSE s

\* str.lstrip('#'): every leading '#' is removed
RECURSIVE LStripHash(_)
LStripHash(s) ==
    IF Len(s) > 0 /\ s[1] = "#" THEN LStripHash(Tail(s)) ELSE s

DefaultAssColor == <<"&","H","F","F","F","F","F","F","&">>

\* hex_to_ass_color(hex_color).  The slices of lines 940-942 cannot raise, so the
\* handler of line 946 is never entered: only the length is tested.
hex_to_ass_color(hex_color) ==
    LET h == LStripHash(Strip(hex_color)) IN
    IF Len(h) # 6 THEN DefaultAssColor
    ELSE <<"&", "H">> \o SubSeq(h, 5, 6) \o SubSeq(h, 3, 4) \o SubSeq(h, 1, 2) \o <<"&">>

\* str.replace(a, b) for single characters
ReplaceChar(s, a, b) == [i \in 1..Len(s) |-> IF s[i] = a THEN b ELSE s[i]]

\* str.split(sep) for a single character
RECURSIVE SplitOn(_, _)
SplitOn(s, sep) ==
    IF \E i \in 1..Len(s) : s[i] = sep
    THEN LET i == CHOOSE k \in 1..Len(s) : s[k] = sep /\ \A j \in 1..(k - 1) : s[j] # sep
         IN  <<SubSeq(s, 1, i - 1)>> \o SplitOn(SubSeq(s, i + 1, Len(s)), sep)
    ELSE <<s>>

DigitChar(d) ==
    CASE d = 0 -> "0" [] d = 1 -> "1" [] d = 2 -> "2" [] d = 3 -> "3" [] d = 4 -> "4"
      [] d = 5 -> "5" [] d = 6 -> "6" [] d = 7 -> "7" [] d = 8 -> "8" [] d = 9 -> "9"

\* f"{n}" for n >= 0
RECURSIVE IntText(_)
IntText(n) == IF n < 10 THEN <<DigitChar(n)>> ELSE IntText(n \div 10) \o <<DigitChar(n % 10)>>

\* f"{n:02d}" for n >= 0
Pad2(n) == IF n < 10 THEN <<"0">> \o IntText(n) ELSE IntText(n)

\* s[:2].ljust(2, '0')
FirstTwoPadded(s) ==
    IF Len(s) >= 2 THEN SubSeq(s, 1, 2) ELSE IF Len(s) = 1 THEN s \o <<"0">> ELSE <<"0", "0">>

\* stands for the ValueError of int()
TextValueError == <<"ValueError">>

\* A faulty variant of srt_time_to_ass_time: one digit of the fraction is kept.
srt_time_to_ass_time_tenths(srt_time) ==
    LET time_str == ReplaceChar(srt_time, ",", ".")
        parts == SplitOn(time_str, ":")
    IN  IF Len(parts) # 3 THEN time_str
        ELSE LET seconds_parts == SplitOn(parts[3], ".") IN
             IF ParseInt(parts[1]) < 0 \/ ParseInt(parts[2]) < 0 \/ ParseInt(seconds_parts[1]) < 0
             THEN TextValueError
             ELSE IntText(ParseInt(parts[1])) \o <<":">> \o Pad2(ParseInt(parts[2])) \o <<":">>
                  \o Pad2(ParseInt(seconds_parts[1])) \o <<".">>
                  \o (IF Len(seconds_parts) > 1
                      THEN FirstTwoPadded(SubSeq(seconds_parts[2], 1, 1)) ELSE <<"0", "0">>)

\* srt_time_to_ass_time(srt_time)
srt_time_to_ass_time(srt_time) ==
    LET time_str == ReplaceChar(srt_time, ",", ".")
        parts == SplitOn(time_str, ":")
    IN  IF Len(parts) # 3 THEN time_str
        ELSE LET seconds_parts == SplitOn(parts[3], ".") IN
             IF ParseInt(parts[1]) < 0 \/ ParseInt(parts[2]) < 0 \/ ParseInt(seconds_parts[1]) < 0
             THEN TextValueError
             ELSE IntText(ParseInt(parts[1])) \o <<":">> \o Pad2(ParseInt(parts[2])) \o <<":">>
                  \o Pad2(ParseInt(seconds_parts[1])) \o <<".">>
                  \o (IF Len(seconds_parts) > 1
                      THEN FirstTwoPadded(seconds_parts[2]) ELSE <<"0", "0">>)

\* longest colour body tried
MaxColorLen == 7

\* characters of a colour body: a digit, an upper-case and a lower-case hexadecimal
\* letter, and a letter that is no hexadecimal digit
ColorChars == {"0", "A", "f", "G"}

ColorBodies == UNION { [1..k -> ColorChars] : k \in 0..MaxColorLen }

ColorInputs ==
    { prefix \o body : prefix \in {<<>>, <<"#">>, <<"#", "#">>, <<" ", "#">>},
                       body \in ColorBodies }

\* well-formed SRT times HH:MM:SS,mmm
SrtTimes ==
    { hh \o <<":">> \o mm \o <<":">> \o ss \o <<",">> \o <<m1, m2, m3>> :
        hh \in {<<"0","0">>, <<"0","1">>, <<"1","0">>},
        mm \in {<<"0","0">>, <<"5","9">>},
        ss \in {<<"0","0">>, <<"0","7">>},
        m1 \in {"0", "4"}, m2 \in {"0", "4"}, m3 \in {"0", "4"} }

\* other arguments: no fraction, two fields, a field that is no number
OtherTimes ==
    { <<"0","0",":","0","0",":","0","1">>, <<"0","0",":","0","1">>,
      <<"0","0",":","x","x",":","0","1",",","0","0","0">>,
      <<"0","0",":","0","0",":","0","1",",","5">> }

\* the arguments <<a, num, den>>, among those the model draws, for which the double
\* a * (num / den) of Python is just below the whole number a * num / den
\* (IEEE-754 binary64, round to nearest): 150 * (704 / 1920.0) is 54.99999999999999
FloatShortfalls ==
    { <<150, 704, 1920>>, <<300, 704, 1920>>, <<680, 35, 100>>, <<680, 70, 100>> }

\* int(a * (num / den)) of lines 994, 1089 and 1092: the double product, truncated
\* towards zero
IntOfProduct(a, num, den) ==
    LET n == a * num
        magnitude == (IF n >= 0 THEN n ELSE 0 - n) \div den
        short == IF <<a, num, den>> \in FloatShortfalls THEN 1 ELSE 0
    IN  IF n >= 0 THEN magnitude - short ELSE 0 - (magnitude - short)

\* A faulty variant of min_font_size: the floor of 40 only.
min_font_size_unscaled(v_height) == 40

\* line 1092: min_font_size = max(40, int(video_height * 0.05))
min_font_size(v_height) == Max(40, IntOfProduct(v_height, 5, 100))

\* lines 1082-1099 of srt_to_ass: the Fontsize of the style, for params.font_size
\* (0 for a missing one) and the video height
ass_font_size(font_size_param, v_height) ==
    LET base_font_size == IF font_size_param = 0 THEN 60 ELSE font_size_param
    IN  IF v_height # 1920
        THEN Max(min_font_size(v_height),
                 Min(IntOfProduct(base_font_size, v_height, 1920), 200))
        ELSE Max(40, base_font_size)

\* A faulty variant of ClampMargin: the margin is only kept from the bottom edge.
ClampMarginUpperOnly(margin_v, v_height, font_size) ==
    Min(margin_v, v_height - font_size - 10)

\* line 996: max(10, min(margin_v, video_height - font_size - 10))
ClampMargin(margin_v, v_height, font_size) ==
    Max(10, Min(margin_v, v_height - font_size - 10))

\* get_ass_alignment_and_margin(position, custom_position, video_height, font_size):
\* <<alignment, margin_v>>
get_ass_alignment_and_margin(position, custom_position, v_height, font_size) ==
    CASE position = "top" -> <<8, IntOfProduct(v_height, 5, 100)>>
      [] position = "bottom" -> <<2, IntOfProduct(v_height, 5, 100)>>
      [] position = "center" -> <<5, 0>>
      [] position = "custom" ->
            <<5, ClampMargin(IntOfProduct(v_height - font_size, custom_position, 100),
                             v_height, font_size)>>
      [] OTHER -> <<2, IntOfProduct(v_height, 5, 100)>>

\* the characters str.strip() removes, among those of the model
Whitespace == {" ", "\n", "\r"}

\* str.strip() of line 1173
RECURSIVE StripWhitespace(_)
StripWhitespace(s) ==
    IF Len(s) = 0 THEN s
    ELSE IF s[1] \in Whitespace THEN StripWhitespace(Tail(s))
    ELSE IF s[Len(s)] \in Whitespace THEN StripWhitespace(SubSeq(s, 1, Len(s) - 1))
    ELSE s

\* str.replace(old, new) for a text old of one or two characters
RECURSIVE StrReplace(_, _, _)
StrReplace(s, old, new) ==
    IF Len(s) < Len(old) THEN s
    ELSE IF SubSeq(s, 1, Len(old)) = old
    THEN new \o StrReplace(SubSeq(s, Len(old) + 1, Len(s)), old, new)
    ELSE <<s[1]>> \o StrReplace(Tail(s), old, new)

\* line 1178: text.replace("\r\n", "\n").replace("\r", "\n")
NormalizeNewlines(s) == StrReplace(StrReplace(s, <<"\r", "\n">>, <<"\n">>), <<"\r">>, <<"\n">>)

\* A faulty variant of EscapeAss: the braces are escaped before the backslashes.
EscapeAssBracesFirst(s) ==
    StrReplace(StrReplace(StrReplace(StrReplace(s, <<"{">>, <<"\\", "{">>),
                                     <<"}">>, <<"\\", "}">>),
                          <<"\\">>, <<"\\", "\\">>),
               <<"\n">>, <<"\\", "N">>)

\* lines 1180-1183: the four replacements, in the order of the code
EscapeAss(s) ==
    StrReplace(StrReplace(StrReplace(StrReplace(s, <<"\\">>, <<"\\", "\\">>),
                                     <<"{">>, <<"\\", "{">>),
                          <<"}">>, <<"\\", "}">>),
               <<"\n">>, <<"\\", "N">>)

\* lines 1172-1186: the text of the Dialogue line of a cue, <<>> when the cue is
\* skipped at line 1175
dialogue_text(text) ==
    IF StripWhitespace(text) = <<>> THEN <<>>
    ELSE EscapeAss(NormalizeNewlines(StripWhitespace(text)))

\* the longest cue text drawn from TextChars
MaxTextLen == 3

TextChars == {"a", "N", "\\", "{", "}", "\n", "\r", " "}

HelloWorld == <<"H", "e", "l", "l", "o", " ", "{", "w", "o", "r", "l", "d", "}">>

\* the cue texts a call can meet
CueTexts == UNION { [1..k -> TextChars] : k \in 0..MaxTextLen } \cup {HelloWorld}

\* params.font_size (0: not set) and the video height
FontSizeInputs ==
    [font_size : {0, 20, 60, 150, 300, 400},
     video_height : {360, 704, 1080, 1248, 1920, 4320}]

\* the arguments of get_ass_alignment_and_margin
MarginInputs ==
    [position : {"top", "bottom", "center", "custom", "left"},
     custom_position : {0, 35, 50, 70, 100, 120},
     video_height : {50, 720, 1080, 1920},
     font_size : {40, 62, 200}]

\* the subtitle items file_to_subtitles can hand to srt_to_ass: an index, whether
\* the time line matches the pattern of line 1165, and the text
CueItems ==
    [index : {0}, time_ok : BOOLEAN, text : {<<"a">>, <<" ">>, <<"{", "b">>}]

\* the lists of items of a call, numbered from 1 as file_to_subtitles numbers them
CueLists ==
    { [k \in 1..Len(c) |-> [c[k] EXCEPT !.index = k]] :
        c \in UNION { [1..n -> CueItems] : n \in 0..MaxCues } }

RECURSIVE DialogueLines(_)
\* lines 1163-1187: the Dialogue lines of the items, in order; an item whose time
\* line does not match (line 1167) or whose text is blank (line 1175) gives none
DialogueLines(items) ==
    IF Len(items) = 0 THEN <<>>
    ELSE LET item == items[1]
             line == IF item.time_ok /\ dialogue_text(item.text) # <<>>
                     THEN <<[index |-> item.index, text |-> dialogue_text(item.text)]>>
                     ELSE <<>>
         IN  line \o DialogueLines(Tail(items))

\* what srt_to_ass hands back and writes
NoDocument == [ok |-> FALSE, play_res_x |-> 0, play_res_y |-> 0, dialogues |-> <<>>]

\* lines 1052-1056, 1117-1125 and 1158-1196 of srt_to_ass: the document written for
\* the items and the target size, when the font is there and the file can be written
ass_document(items, v_width, v_height) ==
    IF Len(items) = 0 \/ Len(DialogueLines(items)) = 0 THEN NoDocument
    ELSE [ok |-> TRUE, play_res_x |-> v_width, play_res_y |-> v_height,
          dialogues |-> DialogueLines(items)]

\* the arguments of a call of srt_to_ass
DocumentInputs == [items : CueLists, size : {Portrait, Landscape}]

InitText ==
    /\ phase = "tx_call"
    /\ video_codec = "libx264"
    /\ EncodeIdle
    /\ CacheIdle
    /\ WorkerIdle
    /\ CombineIdle
    /\ GenerateIdle
    /\ ProbeIdle
    /\ \/ tx_fn = "hex_to_ass_color" /\ tx_in \in ColorInputs
       \/ tx_fn = "srt_time_to_ass_time" /\ tx_in \in SrtTimes \cup OtherTimes
       \/ tx_fn = "ass_font_size" /\ tx_in \in FontSizeInputs
       \/ tx_fn = "get_ass_alignment_and_margin" /\ tx_in \in MarginInputs
       \/ tx_fn = "dialogue_text" /\ tx_in \in CueTexts
       \/ tx_fn = "srt_to_ass" /\ tx_in \in DocumentInputs
    /\ tx_out = <<>>

nonText == <<video_codec, encVars, cacheVars, workerVars, combineVars, genVars, probeVars>>

HexToAssColor ==
    /\ phase = "tx_call"
    /\ tx_fn = "hex_to_ass_color"
    /\ tx_out' = hex_to_ass_color(tx_in)
    /\ phase' = "tx_done"
    /\ UNCHANGED <<nonText, tx_fn, tx_in>>

SrtTimeToAssTime ==
    /\ phase = "tx_call"
    /\ tx_fn = "srt_time_to_ass_time"
    /\ tx_out' = srt_time_to_ass_time(tx_in)
    /\ phase' = "tx_done"
    /\ UNCHANGED <<nonText, tx_fn, tx_in>>

\* lines 1082-1099, for the font size and the height of a call of srt_to_ass
AssFontSize ==
    /\ phase = "tx_call"
    /\ tx_fn = "ass_font_size"
    /\ tx_out' = <<ass_font_size(tx_in.font_size, tx_in.video_height)>>
    /\ phase' = "tx_done"
    /\ UNCHANGED <<nonText, tx_fn, tx_in>>

GetAssAlignmentAndMargin ==
    /\ phase = "tx_call"
    /\ tx_fn = "get_ass_alignment_and_margin"
    /\ tx_out' = get_ass_alignment_and_margin(tx_in.position, tx_in.custom_position,
                                               tx_in.video_height, tx_in.font_size)
    /\ phase' = "tx_done"
    /\ UNCHANGED <<nonText, tx_fn, tx_in>>

\* lines 1172-1186, for the text of one cue
DialogueText ==
    /\ phase = "tx_call"
    /\ tx_fn = "dialogue_text"
    /\ tx_out' = dialogue_text(tx_in)
    /\ phase' = "tx_done"
    /\ UNCHANGED <<nonText, tx_fn, tx_in>>

\* lines 1117-1196, for the items and the target size of one call
SrtToAss ==
    /\ phase = "tx_call"
    /\ tx_fn = "srt_to_ass"
    /\ tx_out' = ass_document(tx_in.items, tx_in.size[1], tx_in.size[2])
    /\ phase' = "tx_done"
    /\ UNCHANGED <<nonText, tx_fn, tx_in>>

NextText ==
    \/ SrtToAss
    \/ HexToAssColor
    \/ SrtTimeToAssTime
    \/ AssFontSize
    \/ GetAssAlignmentAndMargin
    \/ DialogueText

SpecText == InitText /\ [][NextText]_vars

HexDigits ==
    Digits \cup {"a", "b", "c", "d", "e", "f", "A", "B", "C", "D", "E", "F"}

\* C17: an argument #RRGGBB of six hexadecimal digits gives &HBBGGRR&, and an
\* argument whose text after the leading # is not exactly six hexadecimal digits
\* gives &HFFFFFF& (arguments without blanks, with at most one #).
C17_HexToAssColor ==
    (phase = "tx_done" /\ tx_fn = "hex_to_ass_color"
       /\ \A i \in 1..Len(tx_in) : tx_in[i] # " " /\ (i > 1 => tx_in[i] # "#")) =>
        LET body == IF Len(tx_in) > 0 /\ tx_in[1] = "#" THEN Tail(tx_in) ELSE tx_in IN
        IF Len(body) = 6 /\ \A i \in 1..6 : body[i] \in HexDigits
        THEN tx_out = <<"&", "H", body[5], body[6], body[3], body[4], body[1], body[2], "&">>
        ELSE tx_out = DefaultAssColor

\* the SRT time an ASS time H:MM:SS.cc stands for: the hours on two digits, a comma,
\* and a third digit 0 after the centiseconds
SrtFromAss(a) ==
    LET parts == SplitOn(a, ":") IN
    IF Len(parts) # 3 THEN a
    ELSE (IF Len(parts[1]) = 1 THEN <<"0">> \o parts[1] ELSE parts[1])
         \o <<":">> \o parts[2] \o <<":">> \o ReplaceChar(parts[3], ".", ",") \o <<"0">>

\* C18 as stated: for every well-formed SRT time, converting to ASS and back gives
\* the time again, and no other well-formed time has the same ASS time.
C18_RoundTripAllTimes ==
    (phase = "tx_done" /\ tx_fn = "srt_time_to_ass_time" /\ tx_in \in SrtTimes) =>
        /\ SrtFromAss(tx_out) = tx_in
        /\ \A t \in SrtTimes : t # tx_in => srt_time_to_ass_time(t) # tx_out

\* C18 amended: for every well-formed SRT time whose milliseconds end in 0,
\* converting to ASS and back gives the time again, and no other such time has the
\* same ASS time.
C18_RoundTripWholeCentiseconds ==
    (phase = "tx_done" /\ tx_fn = "srt_time_to_ass_time" /\ tx_in \in SrtTimes
       /\ tx_in[12] = "0") =>
        /\ SrtFromAss(tx_out) = tx_in
        /\ \A t \in SrtTimes : (t # tx_in /\ t[12] = "0") => srt_time_to_ass_time(t) # tx_out

\* C18 witness: 01:59:07,440 has been converted to 1:59:07.44
C18_Witness ==
    /\ phase = "tx_done"
    /\ tx_fn = "srt_time_to_ass_time"
    /\ tx_in = <<"0","1",":","5","9",":","0","7",",","4","4","0">>
    /\ tx_out = <<"1",":","5","9",":","0","7",".","4","4">>

(***************************************************************************)
(* SpecProbe: detect_gpu, get_best_video_codec and get_gpu_scale_filter on *)
(* one machine                                                             *)
(***************************************************************************)

Versions == {V570_61, V570_0, V569_99, VUnparsable, <<>>}

\* what the commands of detect_gpu can do
ProbeEnvs ==
    [system : {"linux", "windows", "darwin"},
     smi : {"ok", "no output", "not found", "timeout", "error"},
     driver : [run : {"ok", "fail", "raise"}, version : Versions],
     wmic : [run : {"ok", "fail", "timeout", "error"},
             words : {{}, {"intel", "uhd"}, {"amd"}}],
     profiler : {"apple", "other", "timeout"},
     drm : {"absent", "0x8086", "0x1002", "error"}]

\* what ffmpeg -encoders can do
EncoderListings ==
    { [run |-> "ok", names |-> GpuEncoderValues \cup {"libx264"}],
      [run |-> "ok", names |-> {"libx264"}],
      [run |-> "fail", names |-> GpuEncoderValues \cup {"libx264"}],
      [run |-> "raise", names |-> {}] }

\* what ffmpeg -filters can do
FilterListings ==
    { [run |-> "ok", names |-> {"scale", "scale_npp", "scale_qsv"}],
      [run |-> "ok", names |-> {"scale"}],
      [run |-> "fail", names |-> {"scale", "scale_npp", "scale_qsv"}],
      [run |-> "raise", names |-> {}] }

InitProbe ==
    /\ phase = "pr_call"
    /\ video_codec = "libx264"
    /\ EncodeIdle
    /\ CacheIdle
    /\ WorkerIdle
    /\ CombineIdle
    /\ GenerateIdle
    /\ TextIdle
    /\ pr_env \in ProbeEnvs
    /\ pr_encoders \in EncoderListings
    /\ pr_filters \in FilterListings
    /\ pr_gpu = ""
    /\ pr_codec = ""
    /\ pr_filter = ""

\* the three probes on the machine
RunProbes ==
    /\ phase = "pr_call"
    /\ pr_gpu' = detect_gpu(pr_env)
    /\ pr_codec' = get_best_video_codec(pr_env, pr_encoders)
    /\ pr_filter' = get_gpu_scale_filter(detect_gpu(pr_env), pr_filters)
    /\ phase' = "pr_done"
    /\ UNCHANGED <<video_codec, encVars, cacheVars, workerVars, combineVars, genVars,
                   textVars, pr_env, pr_encoders, pr_filters>>

NextProbe == RunProbes

SpecProbe == InitProbe /\ [][NextProbe]_vars

\* C19: detect_gpu hands back nvidia only if nvidia-smi succeeded with a first
\* line and the driver's number before the first dot is 570 or more; 570.0 is
\* accepted, and 569.99 and a version that is no number are not.
C19_NvidiaNeedsDriver570 ==
    phase = "pr_done" =>
        LET answered == pr_env.smi = "ok" /\ pr_env.driver.run = "ok" IN
        /\ pr_gpu = "nvidia" => (answered /\ pr_env.driver.version \in {V570_61, V570_0})
        /\ (answered /\ pr_env.driver.version = V570_0) => pr_gpu = "nvidia"
        /\ pr_env.driver.version \in {V569_99, VUnparsable, <<>>} => pr_gpu # "nvidia"

\* C19 witness: the driver reports 570.0 and nvidia is handed back
C19_Witness ==
    /\ phase = "pr_done"
    /\ pr_env.driver.version = V570_0
    /\ pr_gpu = "nvidia"

\* C20: the encoder is the detected vendor's encoder when ffmpeg -encoders lists it
\* and libx264 otherwise; the scale filter is scale_npp for nvidia and scale_qsv for
\* intel when ffmpeg -filters lists it and none otherwise; each is decided alone.
C20_PreferredOrDemoted ==
    phase = "pr_done" =>
        LET lists(listing, name) == listing.run = "ok" /\ name \in listing.names
            encoder == CASE pr_gpu = "nvidia" -> "h264_nvenc"
                         [] pr_gpu = "intel" -> "h264_qsv"
                         [] pr_gpu = "amd" -> "h264_amf"
                         [] pr_gpu = "apple" -> "h264_videotoolbox"
                         [] OTHER -> "libx264"
            filter == CASE pr_gpu = "nvidia" -> "scale_npp"
                        [] pr_gpu = "intel" -> "scale_qsv"
                        [] OTHER -> None
        IN  /\ pr_codec = IF lists(pr_encoders, encoder) THEN encoder ELSE "libx264"
            /\ pr_filter = IF filter # None /\ lists(pr_filters, filter) THEN filter ELSE None

\* C20 witness: nvidia detected, h264_nvenc not listed and scale_npp listed: the
\* encoder is demoted and the filter is kept
C20_Witness ==
    /\ phase = "pr_done"
    /\ pr_gpu = "nvidia"
    /\ pr_codec = "libx264"
    /\ pr_filter = "scale_npp"

\* a probe command that detect_gpu ran did not answer: nvidia-smi, or after it wmic,
\* system_profiler or the read of the DRM vendor file, failed or timed out
VendorCommandFailed ==
    \/ pr_env.smi \in {"timeout", "error"}
    \/ /\ pr_env.smi \in {"no output", "not found"}
       /\ \/ pr_env.system = "windows" /\ pr_env.wmic.run # "ok"
          \/ pr_env.system = "darwin" /\ pr_env.profiler = "timeout"
          \/ pr_env.system = "linux" /\ pr_env.drm = "error"

\* C21 as stated: whenever a probe command fails or times out, the encoder is
\* libx264 and there is no GPU scale filter.
C21_FailedProbeGivesCpu ==
    phase = "pr_done" =>
        /\ (VendorCommandFailed \/ pr_encoders.run # "ok") => pr_codec = "libx264"
        /\ (VendorCommandFailed \/ pr_filters.run # "ok") => pr_filter = None

\* C21 amended: the probes always hand back a value; a failed ffmpeg listing gives
\* libx264 or no GPU filter; a failed OS enumeration, or an unexpected error of
\* nvidia-smi, gives no vendor, libx264 and no GPU filter; a timeout of nvidia-smi
\* only leaves out nvidia: the OS checks that follow can still find intel, amd, apple.
C21_FailedProbeAbsorbed ==
    phase = "pr_done" =>
        /\ pr_gpu \in {None, "nvidia", "intel", "amd", "apple"}
        /\ pr_encoders.run # "ok" => pr_codec = "libx264"
        /\ pr_filters.run # "ok" => pr_filter = None
        /\ (\/ pr_env.smi = "error"
            \/ pr_env.smi # "ok" /\ pr_env.system = "windows" /\ pr_env.wmic.run # "ok"
            \/ pr_env.smi # "ok" /\ pr_env.system = "darwin" /\ pr_env.profiler = "timeout"
            \/ pr_env.smi # "ok" /\ pr_env.system = "linux" /\ pr_env.drm = "error")
              => (pr_gpu = None /\ pr_codec = "libx264" /\ pr_filter = None)
        /\ pr_env.smi = "timeout" => pr_gpu # "nvidia"

\* C21 witness: nvidia-smi timed out, the DRM vendor file names Intel, and
\* ffmpeg -encoders exited with an error: intel, libx264, scale_qsv
C21_Witness ==
    /\ phase = "pr_done"
    /\ pr_env.smi = "timeout"
    /\ pr_gpu = "intel"
    /\ pr_encoders = [run |-> "fail", names |-> GpuEncoderValues \cup {"libx264"}]
    /\ pr_codec = "libx264"
    /\ pr_filter = "scale_qsv"

\* the indexes submitted to the pool so far: those still running and those collected
Dispatched == pending \cup DictKeys(processed_clips_dict) \cup {f[1] : f \in failed}

\* C22: the windows submitted to the pool are the prefix of the window list taken
\* while the planned durations of the windows before do not add up to more than the
\* narration; the windows after that prefix are not submitted.
C22_OnlyPrefixDispatched ==
    phase = "collect" =>
        Dispatched = { i \in 0..(Len(subclipped_items) - 1) :
                         SumDuration(SubSeq(subclipped_items, 1, i)) <= cv_args.audio_duration }

\* the looping step of lines 725-733 ran and ended
Looped == phase \in Concatenating /\ Len(base_clips) >= 1

\* C23: during and after the looping step the clip list is the base list, in
\* ascending window order, followed by its clips repeated cyclically; the appended
\* clips are the same records (the same temp files, no file is made), the duration
\* is the sum over the list, and the step ends at the first point where the sum is
\* the narration duration or more: one two-second clip and a narration of three
\* seconds give two references, four seconds.
C23_LoopRepeatsBaseCyclically ==
    (phase = "looping" \/ Looped) =>
        /\ Len(processed_clips) >= Len(base_clips)
        /\ \A k \in 1..(Len(base_clips) - 1) : base_clips[k].n < base_clips[k + 1].n
        /\ \A k \in 1..Len(processed_clips) :
              processed_clips[k] = base_clips[((k - 1) % Len(base_clips)) + 1]
        /\ video_duration = SumDuration(processed_clips)
        /\ SumDuration(base_clips) < cv_args.audio_duration
        /\ Looped =>
              /\ SumDuration(processed_clips) >= cv_args.audio_duration
              /\ SumDuration(SubSeq(processed_clips, 1, Len(processed_clips) - 1))
                    < cv_args.audio_duration
              /\ (Len(base_clips) = 1 /\ base_clips[1].duration = 2
                     /\ cv_args.audio_duration = 3)
                    => (Len(processed_clips) = 2 /\ video_duration = 4)

\* C23 witness: two one-second clips and a narration of three seconds: the list is
\* the first, the second and the first again, three seconds
C23_Witness ==
    /\ Looped
    /\ Len(base_clips) = 2
    /\ cv_args.audio_duration = 3
    /\ Len(processed_clips) = 3
    /\ processed_clips[3] = base_clips[1]
    /\ video_duration = 3

\* the planner of lines 640-654 has gone through every source and line 658 has not
\* shuffled yet
Planned == phase = "plan" /\ src_idx > Len(cv_args.video_paths)

\* the windows of the source s in the window list, in list order
WindowsOfSource(s) == SelectSeq(subclipped_items, LAMBDA w : w.file_path = s)

\* C24: in random mode with max_clip_duration M > 0, before the shuffle, a source
\* of duration D has exactly D \div M windows in the list, the k-th of them
\* [(k-1)*M, k*M), so that they do not overlap and a source shorter than M has none.
C24_RandomModeWindows ==
    (Planned /\ cv_args.video_concat_mode = "random" /\ cv_args.max_clip_duration > 0) =>
        LET M == cv_args.max_clip_duration
        IN  /\ \A s \in 1..Len(cv_args.video_paths) :
                  LET D == cv_args.video_paths[s].duration
                      ws == WindowsOfSource(s)
                  IN  /\ Len(ws) = D \div M
                      /\ D < M => Len(ws) = 0
                      /\ \A k \in 1..Len(ws) :
                            /\ ws[k].start_time = (k - 1) * M
                            /\ ws[k].end_time = k * M
                            /\ ws[k].duration = M
                      /\ \A j, k \in 1..Len(ws) :
                            j < k => ws[j].end_time <= ws[k].start_time
            /\ \A k \in 1..Len(subclipped_items) :
                  subclipped_items[k].file_path \in 1..Len(cv_args.video_paths)

\* C24 witness: a two-second source with M = 2 has the one window [0, 2), and a
\* source before it, shorter than M, has none
C24_Witness ==
    /\ Planned
    /\ cv_args.video_concat_mode = "random"
    /\ cv_args.max_clip_duration = 2
    /\ Len(cv_args.video_paths) = 2
    /\ cv_args.video_paths[1].duration = 1
    /\ cv_args.video_paths[2].duration = 2
    /\ Len(subclipped_items) = 1
    /\ subclipped_items[1].file_path = 2

\* C25: in sequential mode the window list has at most one window of each source,
\* each window is [0, max_clip_duration), and the windows are in the order of their
\* sources, during the planning and ever after.
C25_SequentialOneWindow ==
    cv_args.video_concat_mode = "sequential" =>
        /\ \A k \in 1..Len(subclipped_items) :
              /\ subclipped_items[k].start_time = 0
              /\ subclipped_items[k].end_time = cv_args.max_clip_duration
        /\ \A k \in 1..(Len(subclipped_items) - 1) :
              subclipped_items[k].file_path < subclipped_items[k + 1].file_path

\* C25 witness: two sources longer than one window, one window of each, in order,
\* in the hands of the workers
C25_Witness ==
    /\ cv_args.video_concat_mode = "sequential"
    /\ phase = "collect"
    /\ cv_args.max_clip_duration = 1
    /\ Len(cv_args.video_paths) = 2
    /\ cv_args.video_paths[1].duration = 2
    /\ Len(subclipped_items) = 2
    /\ subclipped_items[1].file_path = 1
    /\ subclipped_items[2].file_path = 2

\* C26: for the original aspect, from the dispatch on, the target size handed to
\* every worker is the source size of the first window of the list as the shuffle
\* left it, and 1080x1920 when the list is empty.
C26_OriginalAspectTarget ==
    (cv_args.video_aspect = "original"
       /\ phase \in {"dispatch", "collect", "built", "looping"} \cup Concatenating) =>
        IF Len(subclipped_items) > 0
        THEN /\ video_width = subclipped_items[1].width
             /\ video_height = subclipped_items[1].height
        ELSE video_width = 1080 /\ video_height = 1920

\* C26 witness: the shuffle has put a window of the second source, a landscape
\* one, first, and a worker has been handed that size
C26_Witness ==
    /\ cv_args.video_aspect = "original"
    /\ cv_args.video_concat_mode = "random"
    /\ phase = "collect"
    /\ Len(subclipped_items) = 2
    /\ subclipped_items[1].file_path = 2
    /\ video_width = Landscape[1]
    /\ video_height = Landscape[2]
    /\ Len(processed_clips_dict) >= 1

\* what the OS-specific checks of lines 129-183 hand back when they are reached
OsChecks(env) == detect_gpu([env EXCEPT !.smi = "no output"])

\* C27: when nvidia-smi reports a GPU and the driver is not accepted, the vendor is
\* the one the OS-specific checks find, and no vendor only when they find none.
C27_RejectedDriverContinues ==
    (phase = "pr_done" /\ pr_env.smi = "ok" /\ ~check_nvidia_driver_version(pr_env.driver)) =>
        pr_gpu = OsChecks(pr_env)

\* x cut to at most hi and then raised to at least lo
Clamp(lo, x, hi) == Max(lo, Min(x, hi))

\* C28 as stated: the font size is max(40, base) for H = 1920 and otherwise
\* floor(base*H/1920) clamped between max(40, floor(H*0.05)) and 200; it is 62 for
\* H = 1248 and base 60; it is at least 40, and at most 200 for H # 1920.
C28_FontSizeAsStated ==
    (phase = "tx_done" /\ tx_fn = "ass_font_size") =>
        LET H == tx_in.video_height
            base == IF tx_in.font_size = 0 THEN 60 ELSE tx_in.font_size
            size == tx_out[1]
        IN  /\ H = 1920 => size = Max(40, base)
            /\ H # 1920 => size = Clamp(Max(40, (H * 5) \div 100), (base * H) \div 1920, 200)
            /\ (H = 1248 /\ base = 60) => size = 62
            /\ size >= 40
            /\ H # 1920 => size <= 200

\* C28 amended: the font size is max(40, base) for H = 1920; otherwise it is the
\* double base*(H/1920.0) truncated, which is floor(base*H/1920) or, only when
\* base*H is a multiple of 1920, one less, first cut to at most 200 and then raised
\* to at least max(40, floor(H*0.05)); it is 62 for H = 1248 and base 60; it is at
\* least 40, and for H # 1920 at most max(200, floor(H*0.05)).
C28_FontSize ==
    (phase = "tx_done" /\ tx_fn = "ass_font_size") =>
        LET H == tx_in.video_height
            base == IF tx_in.font_size = 0 THEN 60 ELSE tx_in.font_size
            size == tx_out[1]
            lo == Max(40, (H * 5) \div 100)
            exact == (base * H) \div 1920
        IN  /\ H = 1920 => size = Max(40, base)
            /\ H # 1920 => size \in {Clamp(lo, exact, 200), Clamp(lo, exact - 1, 200)}
            /\ (H # 1920 /\ (base * H) % 1920 # 0) => size = Clamp(lo, exact, 200)
            /\ (H = 1248 /\ base = 60) => size = 62
            /\ size >= 40
            /\ H # 1920 => (size >= lo /\ size <= Max(200, (H * 5) \div 100))

\* C28 witness: H = 1248 and a base of 60 have given 62
C28_Witness ==
    /\ phase = "tx_done"
    /\ tx_fn = "ass_font_size"
    /\ tx_in = [font_size |-> 60, video_height |-> 1248]
    /\ tx_out = <<62>>

\* C29 as stated: for the position custom the alignment is 5 and marginV is
\* floor((H - size)*p/100) clamped to [10, H - size - 10], so that
\* 10 <= marginV <= H - size - 10 for every H, size and p.
C29_CustomMarginAsStated ==
    (phase = "tx_done" /\ tx_fn = "get_ass_alignment_and_margin"
       /\ tx_in.position = "custom") =>
        LET H == tx_in.video_height
            size == tx_in.font_size
        IN  /\ tx_out[1] = 5
            /\ tx_out[2] = Clamp(10, ((H - size) * tx_in.custom_position) \div 100, H - size - 10)
            /\ 10 <= tx_out[2]
            /\ tx_out[2] <= H - size - 10

\* C29 amended: for the position custom the alignment is 5 and marginV is at least
\* 10; when H - size >= 20 it is the double (H - size)*(p/100) truncated, which is
\* floor((H - size)*p/100) or, only when (H - size)*p is a multiple of 100, one
\* less, clamped to [10, H - size - 10]; when H - size < 20 it is 10, above
\* H - size - 10.
C29_CustomMargin ==
    (phase = "tx_done" /\ tx_fn = "get_ass_alignment_and_margin"
       /\ tx_in.position = "custom") =>
        LET H == tx_in.video_height
            size == tx_in.font_size
            n == (H - size) * tx_in.custom_position
            exact == n \div 100
        IN  /\ tx_out[1] = 5
            /\ 10 <= tx_out[2]
            /\ H - size >= 20 =>
                  /\ tx_out[2] <= H - size - 10
                  /\ tx_out[2] \in {Clamp(10, exact, H - size - 10),
                                    Clamp(10, exact - 1, H - size - 10)}
                  /\ n % 100 # 0 => tx_out[2] = Clamp(10, exact, H - size - 10)
            /\ H - size < 20 => (tx_out[2] = 10 /\ tx_out[2] > H - size - 10)

\* C29 witness: H = 1920, a size of 62 and 70 percent have given alignment 5 and a
\* margin of 1300
C29_Witness ==
    /\ phase = "tx_done"
    /\ tx_fn = "get_ass_alignment_and_margin"
    /\ tx_in = [position |-> "custom", custom_position |-> 70, video_height |-> 1920,
                font_size |-> 62]
    /\ tx_out = <<5, 1300>>

\* what one character of a cue text stands for in the Dialogue text
EscapedChar(c) ==
    CASE c = "\\" -> <<"\\", "\\">>
      [] c = "{" -> <<"\\", "{">>
      [] c = "}" -> <<"\\", "}">>
      [] c = "\n" -> <<"\\", "N">>
      [] OTHER -> <<c>>

RECURSIVE EscapedText(_)
EscapedText(s) == IF Len(s) = 0 THEN <<>> ELSE EscapedChar(s[1]) \o EscapedText(Tail(s))

\* C30: the Dialogue text of a cue is its text, without the white space around it
\* and with every line end a newline, in which every backslash has become two
\* backslashes, every { and } has one backslash before it that is not doubled, and
\* every newline has become \N; Hello {world} becomes Hello \{world\}.
C30_DialogueTextEscaped ==
    (phase = "tx_done" /\ tx_fn = "dialogue_text") =>
        /\ tx_out = EscapedText(NormalizeNewlines(StripWhitespace(tx_in)))
        /\ (\A i \in 1..Len(tx_in) : tx_in[i] \notin Whitespace) => tx_out = EscapedText(tx_in)
        /\ tx_in = HelloWorld =>
              tx_out = <<"H", "e", "l", "l", "o", " ", "\\", "{", "w", "o", "r", "l", "d",
                         "\\", "}">>

\* C30 witness: the text \{} has become \\\{\}
C30_Witness ==
    /\ phase = "tx_done"
    /\ tx_fn = "dialogue_text"
    /\ tx_in = <<"\\", "{", "}">>
    /\ tx_out = <<"\\", "\\", "\\", "{", "\\", "}">>

\* C31: when srt_to_ass succeeds, the document has one Dialogue line for every item
\* the SRT parser returned, in the order of the items, and PlayResX and PlayResY are
\* the target width and height.
C31_OneDialoguePerCue ==
    (phase = "tx_done" /\ tx_fn = "srt_to_ass" /\ tx_out.ok) =>
        /\ Len(tx_out.dialogues) = Len(tx_in.items)
        /\ \A k \in 1..Len(tx_out.dialogues) : tx_out.dialogues[k].index = k
        /\ tx_out.play_res_x = tx_in.size[1]
        /\ tx_out.play_res_y = tx_in.size[2]

\* the music generate_video was asked for
ChosenBgm == get_bgm_file(gv_args.bgm_type, gv_args.bgm_file, gv_args.songs)

\* C32: a failure to choose or to mix the background music never makes generate_video
\* raise: with bgm_type "random" and no song file, or with a music file that cannot
\* be read, the call goes on and an output it produces carries the narration alone.
C32_BgmFailureAbsorbed ==
    phase \in {"gv_returned", "gv_raised"} =>
        /\ gv_error # IndexError
        /\ (phase = "gv_returned" /\ (ChosenBgm = IndexError \/ ~gv_args.bgm_readable))
              => output_audio = Narration

\* the music was mixed under the narration at line 1353
BgmMixed == ChosenBgm \notin {"", IndexError} /\ gv_args.bgm_readable

\* C35: when the music was mixed, the output generate_video produces carries the
\* narration and the music, whichever way the subtitles were put on the video: the
\* single encode, the burn command, the composite after a command that failed, the
\* composite of the handler.
C35_AudioIndependentOfSubtitles ==
    (phase = "gv_returned" /\ BgmMixed) => output_audio = NarrationAndBgm

\* the files the worker of index i writes
PathSet(i) == {WorkerPaths(i).resized, WorkerPaths(i).input, WorkerPaths(i).clip}

\* C33: the temp-clip, temp-input and temp-resized paths of two different workers of
\* one call are different, so every file the workers have left belongs to one
\* worker only.
C33_WorkerPathsDistinct ==
    phase = "collect" =>
        /\ \A i, j \in Dispatched : i # j => PathSet(i) \cap PathSet(j) = {}
        /\ \A f \in files : Cardinality({i \in Dispatched : f \in PathSet(i)}) = 1

\* two workers on windows of the same source are running while a third has left its
\* file
C33_Witness ==
    /\ phase = "collect"
    /\ files # {}
    /\ \E i, j \in pending :
          /\ i # j
          /\ subclipped_items[i + 1].file_path = subclipped_items[j + 1].file_path

\* the phases in which a concatenation reads the files of the clip list: the copy
\* of a single clip, the concat command, the copy of the first clip, the merge steps
ReadingClips == {"merge", "fast", "fallback", "fb_merge"}

\* C34: while a concatenation has the clip list to read, the temp-clip file of every
\* clip of the list, looped clips included, exists; a temp-clip file is removed only
\* by the step that ends the call with the output file written.
C34_ClipsKeptUntilOutput ==
    [][ /\ phase' \in ReadingClips => ClipPaths(processed_clips') \subseteq files'
        /\ \A f \in files \ files' :
              f[1] = "temp-clip" => phase' = "cv_returned" /\ OutputFile \in files' ]_vars

\* a merge step has read a clip of a looped list, and the files of the list are there
C34_Witness ==
    /\ phase = "fb_merge"
    /\ merge_i > 2
    /\ Len(base_clips) >= 1
    /\ Len(processed_clips) > Len(base_clips)
    /\ ClipPaths(processed_clips) \subseteq files

\* C36: a call of write_videofile_with_fallback, demoted or not, leaves the module's
\* encoder and the cached capability values as they were, and a call without a codec
\* argument starts with the module's encoder, whatever the calls before it did.
C36_DemotionChangesNoModuleState ==
    [][ /\ video_codec' = video_codec
        /\ cacheVars' = cacheVars
        /\ (phase' = "wv_done" /\ wv_codec = None)
              => wv_result'.attempts[1] = video_codec ]_vars

\* after a demoted call, a call without a codec argument started with the GPU
\* encoder again, and was demoted in its turn
C36_Witness ==
    /\ phase = "wv_done"
    /\ wv_demotions = 2
    /\ wv_codec = None
    /\ video_codec = "h264_nvenc"
    /\ wv_result.attempts = <<"h264_nvenc", "libx264">>

\* what the worker of window i hands back when its external steps do env, with the
\* transition mode given
WorkerOutcome(i, mode, env) ==
    process_single_clip(subclipped_items[i + 1], i, video_width, video_height,
                        cv_args.max_clip_duration, mode, gpu_scale_filter,
                        video_codec, env)

\* C37: in a call without a transition mode every worker does what it does with the
\* mode none: a worker whose steps all succeed hands back a clip.
C37_NoTransitionModeAsNone ==
    (phase = "collect" /\ cv_args.video_transition_mode = None) =>
        \A i \in Dispatched :
            /\ WorkerOutcome(i, None, AllOk).kind = "clip"
            /\ \A env \in SingleFailureEnvs :
                  WorkerOutcome(i, None, env) = WorkerOutcome(i, "none", env)

\* MaxWindows and MaxListLen stop a loop of the model only where the loop of the code
\* goes on for ever: a planning pass that leaves start_time where it was (line 652
\* with max_clip_duration 0), a looping pass that adds 0 to video_duration (line 732).
BoundsStopOnlyEndlessLoops ==
    /\ (/\ phase = "plan"
        /\ Len(subclipped_items) = MaxWindows
        /\ src_idx <= Len(cv_args.video_paths))
          => \/ ~(start_time < cv_args.video_paths[src_idx].duration)
             \/ /\ ~BreaksAfterFirstPass(cv_args.video_concat_mode)
                /\ Min(start_time + cv_args.max_clip_duration,
                       cv_args.video_paths[src_idx].duration) = start_time
    /\ (/\ phase = "looping"
        /\ Len(processed_clips) = MaxListLen
        /\ Len(base_clips) > 0
        /\ ~LoopDone(video_duration, cv_args.audio_duration))
          => \A k \in 1..Len(base_clips) : base_clips[k].duration = 0

\* C38: the planning loop and the looping step end, whatever the durations of the
\* sources, max_clip_duration, the concat mode and the narration are.
C38_LoopsTerminate ==
    /\ (phase = "plan") ~> (phase # "plan")
    /\ (phase = "looping") ~> (phase # "looping")

====
